---- MODULE Spec2Model ----
(***************************************************************************)
(* State-machine model of the anonymous-voting DAO contracts               *)
(* (DAOState -> DAOMembership -> DAOProposals -> DAOVoting -> DAO) and of  *)
(* the VotingPaymaster that validates sponsored vote operations.           *)
(*                                                                         *)
(* Every external call is one atomic transaction: it either commits all of *)
(* its writes or reverts and leaves the storage as it was.  A transaction  *)
(* is modelled by the ordered list of its checks (the order of the         *)
(* require/revert statements in the source) followed by its writes.        *)
(***************************************************************************)
EXTENDS Integers, Sequences, FiniteSets, TLC

(***************************************************************************)
(* Program constants                                                       *)
(***************************************************************************)
ROOT_HISTORY_SIZE == 64
MIN_TREE_DEPTH == 1
MAX_TREE_DEPTH == 32
MIN_VOTING_DURATION == 3600
MinOptions == 2
MaxOptions == 10
SCOPE == 7
_VALIDATION_FAILED == 1

(***************************************************************************)
(* Bounds of the model                                                     *)
(***************************************************************************)
MaxCommitment == 1
MaxProposals == 2
MaxNullifier == 2
MaxTicks == 1
MaxDeposit == 1
MaxJoins == 66
ScenarioJoins == 3

(***************************************************************************)
(* Input domains                                                           *)
(***************************************************************************)
ZeroAddress == "0x0"
DAOAddress == "dao"
PaymasterAddress == "paymaster"
PaymasterOwner == "owner"
Addresses == {"alice", "bob"}
\* the accounts the owner may allow-list, and the callers of vote()
SmartAccounts == {"alice"}
VoteSenders == {"bob"}

Commitments == 0..MaxCommitment
Nullifiers == 1..MaxNullifier
\* block.timestamp takes the values 0, the end of a voting period of minimal
\* length that started at 0, and the seconds after it
Timestamps == {0} \cup (MIN_VOTING_DURATION..(MIN_VOTING_DURATION + MaxTicks))
Durations == {MIN_VOTING_DURATION - 1, MIN_VOTING_DURATION}
OptionLengths == {MinOptions - 1, MinOptions, MaxOptions + 1}
StringLengths == {0, 1}
ProposalIds == 0..(MaxProposals - 1)
OptionIndexes == 0..MinOptions
Depths == {MIN_TREE_DEPTH - 1, MIN_TREE_DEPTH, MAX_TREE_DEPTH, MAX_TREE_DEPTH + 1}
Scopes == {SCOPE, SCOPE + 1}
RootIndexes == (0..MaxCommitment) \cup {ROOT_HISTORY_SIZE}
MaxCosts == {1}
Values == {0, 1}

VARIABLES
    now,                \* block.timestamp
    members,            \* DAOMembership.members
    memberCommitments,  \* DAOMembership.memberCommitments
    leaves,             \* DAOState._membershipTree (its leaves, in insertion order)
    membershipRoots,    \* DAOState.membershipRoots
    currentRootIndex,   \* DAOState.currentRootIndex
    proposals,          \* DAOProposals.proposals
    proposalCount,      \* DAOProposals.proposalCount
    proposalVotes,      \* DAOVoting.proposalVotes
    nullifierHashes,    \* DAOVoting.nullifierHashes
    events,             \* the event log of the DAO
    expectedSmartAccount, \* VotingPaymaster.expectedSmartAccount
    deposit,            \* the paymaster's deposit at the EntryPoint
    _status,            \* ReentrancyGuard._status of the DAO
    callStack,          \* the vote() calls suspended at the external verifyProof call
    store               \* the entities of the indexer (packages/indexer)

daoVars == <<members, memberCommitments, leaves, membershipRoots, currentRootIndex,
             proposals, proposalCount, proposalVotes, nullifierHashes, events>>
paymasterVars == <<expectedSmartAccount, deposit>>
guardVars == <<_status, callStack>>
indexerVars == <<store>>
vars == <<now, daoVars, paymasterVars, guardVars, indexerVars>>

(***************************************************************************)
(* Transactions                                                            *)
(***************************************************************************)
Min(S) == CHOOSE x \in S : \A y \in S : x <= y

\* A transaction's checks are a sequence of records
\*   [ok: does the check pass, err: the error it raises, verifier: does
\*    evaluating the check call MEMBERSHIP_VERIFIER.verifyProof].
\* The checks run in order; the first one that fails ends the call.
Check(ok, err) == [ok |-> ok, err |-> err, verifier |-> FALSE]
VerifierCheck(ok, err) == [ok |-> ok, err |-> err, verifier |-> TRUE]

RunChecks(checks) ==
    LET failing == {i \in 1..Len(checks) : ~checks[i].ok}
        last == IF failing = {} THEN Len(checks) ELSE Min(failing)
    IN  [err |-> IF failing = {} THEN "ok" ELSE checks[last].err,
         verifierCalls |-> Cardinality({i \in 1..last : checks[i].verifier})]

\* The storage of the DAO contract and its event log, as one record.  A call
\* is a function from the storage before it to the storage after it; a call
\* that reverts gives back the storage it started from.
DAOStorage ==
    [members |-> members, memberCommitments |-> memberCommitments, leaves |-> leaves,
     membershipRoots |-> membershipRoots, currentRootIndex |-> currentRootIndex,
     proposals |-> proposals, proposalCount |-> proposalCount,
     proposalVotes |-> proposalVotes, nullifierHashes |-> nullifierHashes,
     events |-> events]

Commit(storage) ==
    /\ members' = storage.members
    /\ memberCommitments' = storage.memberCommitments
    /\ leaves' = storage.leaves
    /\ membershipRoots' = storage.membershipRoots
    /\ currentRootIndex' = storage.currentRootIndex
    /\ proposals' = storage.proposals
    /\ proposalCount' = storage.proposalCount
    /\ proposalVotes' = storage.proposalVotes
    /\ nullifierHashes' = storage.nullifierHashes
    /\ events' = storage.events

\* A Solidity mapping: a key never written reads as the zero value
Read(mapping, key, zero) == IF key \in DOMAIN mapping THEN mapping[key] ELSE zero

Write(mapping, key, value) == (key :> value) @@ mapping

(***************************************************************************)
(* LeanIMT (the membership tree) and the hash it is built from             *)
(***************************************************************************)
\* the hash of two nodes: a mixing function into a field of small prime order
\* (the trees of the model have pairwise different, non-zero roots under it)
PoseidonT3(a, b) == (a * 1009 + b * 31 + 1) % 1000003

\* one level up: pair the nodes, a node without a right sibling moves up as is
RECURSIVE LeanIMTLevelUp(_)
LeanIMTLevelUp(nodes) ==
    IF Len(nodes) = 0 THEN <<>>
    ELSE IF Len(nodes) = 1 THEN <<nodes[1]>>
    ELSE <<PoseidonT3(nodes[1], nodes[2])>> \o LeanIMTLevelUp(SubSeq(nodes, 3, Len(nodes)))

RECURSIVE LeanIMTRoot(_)
LeanIMTRoot(nodes) ==
    IF Len(nodes) = 0 THEN 0
    ELSE IF Len(nodes) = 1 THEN nodes[1]
    ELSE LeanIMTRoot(LeanIMTLevelUp(nodes))

RECURSIVE LeanIMTDepth(_)
LeanIMTDepth(size) == IF size <= 1 THEN 0 ELSE 1 + LeanIMTDepth((size + 1) \div 2)

LeanIMTHas(leaf) == \E i \in 1..Len(leaves) : leaves[i] = leaf

(***************************************************************************)
(* DAOState                                                                *)
(***************************************************************************)
RootAt(index) == Read(membershipRoots, index, 0)

_isInMembershipTree(identityCommitment) == LeanIMTHas(identityCommitment)

_insertMemberChecks_NoDuplicateCheck(identityCommitment) ==
    << Check(identityCommitment # 0, "InvalidIdentityCommitment"),
       Check(LeanIMTDepth(Len(leaves) + 1) <= MAX_TREE_DEPTH, "MaxTreeDepthReached") >>

_insertMemberChecks(identityCommitment) ==
    << Check(identityCommitment # 0, "InvalidIdentityCommitment"),
       Check(~_isInMembershipTree(identityCommitment), "MemberAlreadyExists"),
       Check(LeanIMTDepth(Len(leaves) + 1) <= MAX_TREE_DEPTH, "MaxTreeDepthReached") >>

_insertMember_WritesAtCurrentIndex(storage, identityCommitment) ==
    LET updatedLeaves == Append(storage.leaves, identityCommitment)
        updatedRoot == LeanIMTRoot(updatedLeaves)
        nextIndex == (storage.currentRootIndex + 1) % ROOT_HISTORY_SIZE
    IN  [storage EXCEPT
            !.leaves = updatedLeaves,
            !.membershipRoots = Write(@, storage.currentRootIndex, updatedRoot),
            !.currentRootIndex = nextIndex,
            !.events = Append(@, <<"MemberAdded", Len(updatedLeaves),
                                   identityCommitment, updatedRoot>>)]

_insertMember_NeverOverwrites(storage, identityCommitment) ==
    LET updatedLeaves == Append(storage.leaves, identityCommitment)
        updatedRoot == LeanIMTRoot(updatedLeaves)
        nextIndex == storage.currentRootIndex + 1
    IN  [storage EXCEPT
            !.leaves = updatedLeaves,
            !.membershipRoots = Write(@, nextIndex, updatedRoot),
            !.currentRootIndex = nextIndex,
            !.events = Append(@, <<"MemberAdded", Len(updatedLeaves),
                                   identityCommitment, updatedRoot>>)]

_insertMember_WrapsOneLate(storage, identityCommitment) ==
    LET updatedLeaves == Append(storage.leaves, identityCommitment)
        updatedRoot == LeanIMTRoot(updatedLeaves)
        nextIndex == (storage.currentRootIndex + 1) % (ROOT_HISTORY_SIZE + 1)
    IN  [storage EXCEPT
            !.leaves = updatedLeaves,
            !.membershipRoots = Write(@, nextIndex, updatedRoot),
            !.currentRootIndex = nextIndex,
            !.events = Append(@, <<"MemberAdded", Len(updatedLeaves),
                                   identityCommitment, updatedRoot>>)]

\* the writes of _insertMember, applied to a storage record
_insertMember(storage, identityCommitment) ==
    LET updatedLeaves == Append(storage.leaves, identityCommitment)
        updatedRoot == LeanIMTRoot(updatedLeaves)
        nextIndex == (storage.currentRootIndex + 1) % ROOT_HISTORY_SIZE
    IN  [storage EXCEPT
            !.leaves = updatedLeaves,
            !.membershipRoots = Write(@, nextIndex, updatedRoot),
            !.currentRootIndex = nextIndex,
            !.events = Append(@, <<"MemberAdded", Len(updatedLeaves),
                                   identityCommitment, updatedRoot>>)]

RECURSIVE KnownRootScan_OneShort(_, _, _)
KnownRootScan_OneShort(root, index, i) ==
    IF i >= ROOT_HISTORY_SIZE - 1 THEN FALSE
    ELSE IF root = RootAt(index) THEN TRUE
    ELSE KnownRootScan_OneShort(root, (index + ROOT_HISTORY_SIZE - 1) % ROOT_HISTORY_SIZE, i + 1)

RECURSIVE KnownRootScan(_, _, _)
KnownRootScan(root, index, i) ==
    IF i >= ROOT_HISTORY_SIZE THEN FALSE
    ELSE IF root = RootAt(index) THEN TRUE
    ELSE KnownRootScan(root, (index + ROOT_HISTORY_SIZE - 1) % ROOT_HISTORY_SIZE, i + 1)

_isKnownMembershipRoot_NoZeroCheck(root) == KnownRootScan(root, currentRootIndex, 0)

_isKnownMembershipRoot(root) ==
    IF root = 0 THEN FALSE ELSE KnownRootScan(root, currentRootIndex, 0)

(***************************************************************************)
(* DAOMembership                                                           *)
(***************************************************************************)
isMember(account) == Read(members, account, FALSE)

joinDAOChecks_NoMemberCheck(sender, identityCommitment) ==
    << Check(identityCommitment # 0, "DAO: Invalid identity commitment") >>
    \o _insertMemberChecks(identityCommitment)

joinDAOChecks(sender, identityCommitment) ==
    << Check(~isMember(sender), "DAO: Already a member"),
       Check(identityCommitment # 0, "DAO: Invalid identity commitment") >>
    \o _insertMemberChecks(identityCommitment)

joinDAOPost_SkipsMemberFlag(sender, identityCommitment) ==
    IF RunChecks(joinDAOChecks(sender, identityCommitment)).err = "ok"
    THEN LET marked == [DAOStorage EXCEPT
                           !.memberCommitments = Write(@, sender, identityCommitment)]
             inserted == _insertMember(marked, identityCommitment)
         IN  [inserted EXCEPT
                 !.events = Append(@, <<"MemberAdded", sender, identityCommitment>>)]
    ELSE DAOStorage

joinDAOPost(sender, identityCommitment) ==
    IF RunChecks(joinDAOChecks(sender, identityCommitment)).err = "ok"
    THEN LET marked == [DAOStorage EXCEPT
                           !.members = Write(@, sender, TRUE),
                           !.memberCommitments = Write(@, sender, identityCommitment)]
             inserted == _insertMember(marked, identityCommitment)
         IN  [inserted EXCEPT
                 !.events = Append(@, <<"MemberAdded", sender, identityCommitment>>)]
    ELSE DAOStorage

joinDAO(sender, identityCommitment) ==
    /\ Commit(joinDAOPost(sender, identityCommitment))
    /\ UNCHANGED <<now, paymasterVars, guardVars, indexerVars>>

(***************************************************************************)
(* DAOProposals                                                            *)
(***************************************************************************)
ZeroProposal ==
    [id |-> 0, titleLength |-> 0, descriptionLength |-> 0, startTime |-> 0, endTime |-> 0,
     executed |-> FALSE, proposer |-> ZeroAddress, totalVotes |-> 0, optionCount |-> 0]

ProposalAt(proposalId) == Read(proposals, proposalId, ZeroProposal)

validProposal(proposalId) == Check(proposalId < proposalCount, "DAO: Invalid proposal")

onlyMember(sender) == Check(isMember(sender), "DAO: Not a member")

createProposalChecks_NoUpperBound(sender, titleLength, descriptionLength, optionsLength, duration) ==
    << onlyMember(sender),
       Check(optionsLength >= MinOptions, "DAO: Need at least 2 options"),
       Check(duration >= MIN_VOTING_DURATION, "DAO: Duration too short"),
       Check(titleLength > 0, "DAO: Empty title"),
       Check(descriptionLength > 0, "DAO: Empty description") >>

createProposalChecks_AnyCaller(sender, titleLength, descriptionLength, optionsLength, duration) ==
    << Check(optionsLength >= MinOptions, "DAO: Need at least 2 options"),
       Check(optionsLength <= MaxOptions, "DAO: Too many options"),
       Check(duration >= MIN_VOTING_DURATION, "DAO: Duration too short"),
       Check(titleLength > 0, "DAO: Empty title"),
       Check(descriptionLength > 0, "DAO: Empty description") >>

createProposalChecks(sender, titleLength, descriptionLength, optionsLength, duration) ==
    << onlyMember(sender),
       Check(optionsLength >= MinOptions, "DAO: Need at least 2 options"),
       Check(optionsLength <= MaxOptions, "DAO: Too many options"),
       Check(duration >= MIN_VOTING_DURATION, "DAO: Duration too short"),
       Check(titleLength > 0, "DAO: Empty title"),
       Check(descriptionLength > 0, "DAO: Empty description") >>

createProposalPost(sender, titleLength, descriptionLength, optionsLength, duration) ==
    LET proposalId == proposalCount
        proposal == [id |-> proposalId, titleLength |-> titleLength,
                     descriptionLength |-> descriptionLength,
                     startTime |-> now, endTime |-> now + duration,
                     executed |-> FALSE, proposer |-> sender,
                     totalVotes |-> 0, optionCount |-> optionsLength]
    IN  IF RunChecks(createProposalChecks(sender, titleLength, descriptionLength,
                                          optionsLength, duration)).err = "ok"
        THEN [DAOStorage EXCEPT
                 !.proposalCount = @ + 1,
                 !.proposals = Write(@, proposalId, proposal),
                 !.events = Append(@, <<"ProposalCreated", proposalId, optionsLength,
                                        proposal.startTime, proposal.endTime, sender>>)]
        ELSE DAOStorage

createProposal(sender, titleLength, descriptionLength, optionsLength, duration) ==
    /\ proposalCount < MaxProposals
    /\ Commit(createProposalPost(sender, titleLength, descriptionLength, optionsLength, duration))
    /\ UNCHANGED <<now, paymasterVars, guardVars, indexerVars>>

executeProposalChecks_NoExecutedCheck(proposalId) ==
    << validProposal(proposalId),
       Check(now > ProposalAt(proposalId).endTime, "DAO: Voting still active") >>

executeProposalChecks_Anytime(proposalId) ==
    << validProposal(proposalId),
       Check(~ProposalAt(proposalId).executed, "DAO: Already executed") >>

executeProposalChecks(proposalId) ==
    << validProposal(proposalId),
       Check(now > ProposalAt(proposalId).endTime, "DAO: Voting still active"),
       Check(~ProposalAt(proposalId).executed, "DAO: Already executed") >>

executeProposalPost_ClearsTotal(proposalId) ==
    IF RunChecks(executeProposalChecks(proposalId)).err = "ok"
    THEN [DAOStorage EXCEPT
             !.proposals = [@ EXCEPT ![proposalId].executed = TRUE,
                                     ![proposalId].totalVotes = 0],
             !.events = Append(@, <<"ProposalExecuted", proposalId>>)]
    ELSE DAOStorage

executeProposalPost(proposalId) ==
    IF RunChecks(executeProposalChecks(proposalId)).err = "ok"
    THEN [DAOStorage EXCEPT
             !.proposals = [@ EXCEPT ![proposalId].executed = TRUE],
             !.events = Append(@, <<"ProposalExecuted", proposalId>>)]
    ELSE DAOStorage

executeProposal(proposalId) ==
    /\ Commit(executeProposalPost(proposalId))
    /\ UNCHANGED <<now, paymasterVars, guardVars, indexerVars>>

\* getActiveProposals: the condition of its loop, the loop that fills
\* tempActiveProposals and counts, and the copy of the first activeCount ids
isActiveProposal_Strict(i) ==
    /\ now >= ProposalAt(i).startTime
    /\ now < ProposalAt(i).endTime
    /\ ~ProposalAt(i).executed

isActiveProposal(i) ==
    /\ now >= ProposalAt(i).startTime
    /\ now <= ProposalAt(i).endTime
    /\ ~ProposalAt(i).executed

RECURSIVE ActiveProposalsScan(_, _, _)
ActiveProposalsScan(i, tempActiveProposals, activeCount) ==
    IF i >= proposalCount
    THEN [tempActiveProposals |-> tempActiveProposals, activeCount |-> activeCount]
    ELSE IF isActiveProposal(i)
         THEN ActiveProposalsScan(i + 1,
                                  [tempActiveProposals EXCEPT ![activeCount + 1] = i],
                                  activeCount + 1)
         ELSE ActiveProposalsScan(i + 1, tempActiveProposals, activeCount)

getActiveProposals ==
    LET scan == ActiveProposalsScan(0, [k \in 1..proposalCount |-> 0], 0)
    IN  [k \in 1..scan.activeCount |-> scan.tempActiveProposals[k]]

\* the call of the view function: it returns its result and writes nothing
getActiveProposalsCall ==
    /\ Len(getActiveProposals) <= proposalCount
    /\ UNCHANGED vars

(***************************************************************************)
(* IVerifier and DAOLib                                                    *)
(***************************************************************************)
\* The verifier is an external contract known only by its interface.  Its
\* answer is a fixed function of the proof; the model lets the proof points
\* carry that answer, so that for every combination of public signals and
\* depth there is a proof the verifier accepts and one it rejects.
AcceptedPoints == "accepted"
RejectedPoints == "rejected"
ProofPoints == {RejectedPoints, AcceptedPoints}

\* DAOLib._hash: keccak256 shifted right by 8 bits, here a small mixing function
_hash(value) == (value * 31 + 17) % 251

verifyProof(points, pubSignals, merkleTreeDepth) == points = AcceptedPoints

\* DAOLib.VoteData
VoteData(depth, root, nullifier, message, scope, points, merkleRootIndex) ==
    [proof |-> [merkleTreeDepth |-> depth, merkleTreeRoot |-> root, nullifier |-> nullifier,
                message |-> message, scope |-> scope, points |-> points],
     config |-> [merkleRootIndex |-> merkleRootIndex]]

(***************************************************************************)
(* DAOVoting                                                               *)
(***************************************************************************)
hasVoted(nullifierHash) == Read(nullifierHashes, nullifierHash, FALSE)

VotesAt(proposalId, optionIndex) == Read(proposalVotes, <<proposalId, optionIndex>>, 0)

_validateProof(proof) ==
    verifyProof(proof.points,
                <<proof.merkleTreeRoot, proof.nullifier, _hash(proof.message), _hash(proof.scope)>>,
                proof.merkleTreeDepth)

\* ReentrancyGuard: the status of the guard, and the check of the modifier
\* nonReentrant on entry
NOT_ENTERED == "NOT_ENTERED"
ENTERED == "ENTERED"

nonReentrant_Skipped == Check(TRUE, "ReentrancyGuardReentrantCall")

nonReentrant == Check(_status # ENTERED, "ReentrancyGuardReentrantCall")

\* the admission checks of vote(), in the order of the source
votingStarted(proposal) == Check(now >= proposal.startTime, "DAO: Voting not started")

votingNotEnded_Strict(proposal) == Check(now < proposal.endTime, "DAO: Voting ended")

votingNotEnded(proposal) == Check(now <= proposal.endTime, "DAO: Voting ended")

validOption_Skipped(optionIndex, proposal) == Check(TRUE, "DAO: Invalid option")

validOption(optionIndex, proposal) ==
    Check(optionIndex < proposal.optionCount, "DAO: Invalid option")

nullifierUnused_Skipped(proof) == Check(TRUE, "DAO: Already voted")

nullifierUnused(proof) == Check(~hasVoted(proof.nullifier), "DAO: Already voted")

scopeMatches_Skipped(proof) == Check(TRUE, "DAO: Invalid DAO scope in proof")

scopeMatches(proof) == Check(proof.scope = SCOPE, "DAO: Invalid DAO scope in proof")

rootKnown_AnyIndex(voteData) ==
    Check(_isKnownMembershipRoot(voteData.proof.merkleTreeRoot), "DAO: Unknown membership root")

rootKnown(voteData) ==
    LET expectedRoot == RootAt(voteData.config.merkleRootIndex)
    IN  Check(voteData.proof.merkleTreeRoot = expectedRoot /\ expectedRoot # 0,
              "DAO: Unknown membership root")

depthInBounds_Exclusive(proof) ==
    Check(proof.merkleTreeDepth > MIN_TREE_DEPTH /\ proof.merkleTreeDepth < MAX_TREE_DEPTH,
          "DAO: Invalid tree depth")

depthInBounds(proof) ==
    Check(proof.merkleTreeDepth >= MIN_TREE_DEPTH /\ proof.merkleTreeDepth <= MAX_TREE_DEPTH,
          "DAO: Invalid tree depth")

proofVerifies(proof) == VerifierCheck(_validateProof(proof), "ProofVerificationFailed")

voteChecks_ProofBeforeDepth(proposalId, optionIndex, voteData) ==
    << validProposal(proposalId),
       votingStarted(ProposalAt(proposalId)),
       votingNotEnded(ProposalAt(proposalId)),
       validOption(optionIndex, ProposalAt(proposalId)),
       nullifierUnused(voteData.proof),
       scopeMatches(voteData.proof),
       rootKnown(voteData),
       proofVerifies(voteData.proof),
       depthInBounds(voteData.proof) >>

voteChecks_RootBeforeScope(proposalId, optionIndex, voteData) ==
    << validProposal(proposalId),
       votingStarted(ProposalAt(proposalId)),
       votingNotEnded(ProposalAt(proposalId)),
       validOption(optionIndex, ProposalAt(proposalId)),
       nullifierUnused(voteData.proof),
       rootKnown(voteData),
       scopeMatches(voteData.proof),
       depthInBounds(voteData.proof),
       proofVerifies(voteData.proof) >>

voteChecks(proposalId, optionIndex, voteData) ==
    << validProposal(proposalId),
       votingStarted(ProposalAt(proposalId)),
       votingNotEnded(ProposalAt(proposalId)),
       validOption(optionIndex, ProposalAt(proposalId)),
       nullifierUnused(voteData.proof),
       scopeMatches(voteData.proof),
       rootKnown(voteData),
       depthInBounds(voteData.proof),
       proofVerifies(voteData.proof) >>

\* the modifiers of vote(), validProposal and then nonReentrant, followed by
\* the checks of its body
guardedVoteChecks(proposalId, optionIndex, voteData) ==
    LET checks == voteChecks(proposalId, optionIndex, voteData)
    IN  <<checks[1], nonReentrant>> \o SubSeq(checks, 2, Len(checks))

voteRun(proposalId, optionIndex, voteData) ==
    RunChecks(guardedVoteChecks(proposalId, optionIndex, voteData))

recordVote_ResetsNullifiers(storage, proposalId, optionIndex, nullifier) ==
    [storage EXCEPT
        !.nullifierHashes = nullifier :> TRUE,
        !.proposalVotes = Write(@, <<proposalId, optionIndex>>,
                                Read(@, <<proposalId, optionIndex>>, 0) + 1),
        !.proposals = [@ EXCEPT ![proposalId].totalVotes = @ + 1],
        !.events = Append(@, <<"VoteCast", proposalId, optionIndex, nullifier>>)]

recordVote_SkipsTotal(storage, proposalId, optionIndex, nullifier) ==
    [storage EXCEPT
        !.nullifierHashes = Write(@, nullifier, TRUE),
        !.proposalVotes = Write(@, <<proposalId, optionIndex>>,
                                Read(@, <<proposalId, optionIndex>>, 0) + 1),
        !.events = Append(@, <<"VoteCast", proposalId, optionIndex, nullifier>>)]

recordVote_LeavesNullifier(storage, proposalId, optionIndex, nullifier) ==
    [storage EXCEPT
        !.proposalVotes = Write(@, <<proposalId, optionIndex>>,
                                Read(@, <<proposalId, optionIndex>>, 0) + 1),
        !.proposals = [@ EXCEPT ![proposalId].totalVotes = @ + 1],
        !.events = Append(@, <<"VoteCast", proposalId, optionIndex, nullifier>>)]

\* the writes of a vote that passed every check
recordVote(storage, proposalId, optionIndex, nullifier) ==
    [storage EXCEPT
        !.nullifierHashes = Write(@, nullifier, TRUE),
        !.proposalVotes = Write(@, <<proposalId, optionIndex>>,
                                Read(@, <<proposalId, optionIndex>>, 0) + 1),
        !.proposals = [@ EXCEPT ![proposalId].totalVotes = @ + 1],
        !.events = Append(@, <<"VoteCast", proposalId, optionIndex, nullifier>>)]

votePost_KeepsWritesOnBadProof(proposalId, optionIndex, voteData) ==
    IF voteRun(proposalId, optionIndex, voteData).err \in {"ok", "ProofVerificationFailed"}
    THEN recordVote(DAOStorage, proposalId, optionIndex, voteData.proof.nullifier)
    ELSE DAOStorage

\* the storage after vote(): the writes if every check passed, else a revert
votePost(proposalId, optionIndex, voteData) ==
    IF voteRun(proposalId, optionIndex, voteData).err = "ok"
    THEN recordVote(DAOStorage, proposalId, optionIndex, voteData.proof.nullifier)
    ELSE DAOStorage

\* vote() called by msgSender: no modifier and no statement of vote() reads
\* msg.sender, and VoteCast has the fields proposalId, optionIndex, nullifier
voteRunFrom(msgSender, proposalId, optionIndex, voteData) ==
    voteRun(proposalId, optionIndex, voteData)

votePostFrom_RecordsSender(msgSender, proposalId, optionIndex, voteData) ==
    LET post == votePost(proposalId, optionIndex, voteData)
    IN  IF voteRun(proposalId, optionIndex, voteData).err = "ok"
        THEN [post EXCEPT !.events[Len(post.events)] = Append(@, msgSender)]
        ELSE post

votePostFrom(msgSender, proposalId, optionIndex, voteData) ==
    votePost(proposalId, optionIndex, voteData)

vote(sender, proposalId, optionIndex, voteData) ==
    /\ Commit(votePostFrom(sender, proposalId, optionIndex, voteData))
    /\ UNCHANGED <<now, paymasterVars, guardVars, indexerVars>>

\* vote() in two steps, for the calls it makes while it runs.  voteEnter runs
\* the modifiers and the checks up to the external call of the verifier and
\* suspends there, with the guard entered and nothing written yet; a call
\* that fails before the verifier reverts.
voteEnter(sender, proposalId, optionIndex, voteData) ==
    /\ callStack = <<>>
    /\ IF voteRun(proposalId, optionIndex, voteData).verifierCalls > 0
       THEN /\ _status' = ENTERED
            /\ callStack' = <<[proposalId |-> proposalId, optionIndex |-> optionIndex,
                               voteData |-> voteData]>>
       ELSE UNCHANGED guardVars
    /\ UNCHANGED <<now, daoVars, paymasterVars, indexerVars>>

\* the verifier, while it is being called, calls DAO.vote()
verifierCallsVote(proposalId, optionIndex, voteData) ==
    /\ callStack # <<>>
    /\ Commit(votePost(proposalId, optionIndex, voteData))
    /\ UNCHANGED <<now, paymasterVars, guardVars, indexerVars>>

\* the verifier returns: the suspended vote() writes and leaves the guard, or
\* reverts
voteReturn ==
    /\ callStack # <<>>
    /\ LET frame == callStack[1]
       IN  IF _validateProof(frame.voteData.proof)
           THEN Commit(recordVote(DAOStorage, frame.proposalId, frame.optionIndex,
                                  frame.voteData.proof.nullifier))
           ELSE UNCHANGED daoVars
    /\ _status' = NOT_ENTERED
    /\ callStack' = <<>>
    /\ UNCHANGED <<now, paymasterVars, indexerVars>>

\* getProposalVotes: the tally vector of a proposal
getProposalVotes(proposalId) ==
    [i \in 0..(ProposalAt(proposalId).optionCount - 1) |-> VotesAt(proposalId, i)]

(***************************************************************************)
(* VotingPaymaster                                                         *)
(***************************************************************************)
\* Call data is kept decoded: a selector and the arguments.  The selector ""
\* stands for empty call data.
VoteCallData(proposalId, optionIndex, voteData) ==
    [selector |-> "vote", proposalId |-> proposalId, optionIndex |-> optionIndex,
     voteData |-> voteData]

OtherCallData(selector) ==
    [VoteCallData(0, 0, VoteData(0, 0, 0, 0, 0, RejectedPoints, 0)) EXCEPT !.selector = selector]

SetAccountCallData(account) == [selector |-> "setExpectedSmartAccount", account |-> account]

ExecuteCallData(selector, target, value, data) ==
    [selector |-> selector, target |-> target, value |-> value, data |-> data]

UserOperation(sender, initCodeLength, callData) ==
    [sender |-> sender, initCodeLength |-> initCodeLength, callData |-> callData]

getDeposit == deposit

setExpectedSmartAccountChecks_AnyCaller(sender, account) ==
    << Check(account # ZeroAddress, "UnauthorizedSmartAccount") >>

setExpectedSmartAccountChecks_AllowsZero(sender, account) ==
    << Check(sender = PaymasterOwner, "OwnableUnauthorizedAccount") >>

setExpectedSmartAccountChecks(sender, account) ==
    << Check(sender = PaymasterOwner, "OwnableUnauthorizedAccount"),
       Check(account # ZeroAddress, "UnauthorizedSmartAccount") >>

\* expectedSmartAccount after the call
setExpectedSmartAccountPost(sender, account) ==
    IF RunChecks(setExpectedSmartAccountChecks(sender, account)).err = "ok"
    THEN account ELSE expectedSmartAccount

setExpectedSmartAccount(sender, account) ==
    /\ expectedSmartAccount' = setExpectedSmartAccountPost(sender, account)
    /\ UNCHANGED <<now, daoVars, deposit, guardVars, indexerVars>>

\* receive(): forwards the value received to the EntryPoint deposit
receive(value) ==
    /\ deposit + value <= MaxDeposit
    /\ deposit' = deposit + value
    /\ UNCHANGED <<now, daoVars, expectedSmartAccount, guardVars, indexerVars>>

\* VotingPaymaster.vote, the read-only copy of the DAO's admission checks
paymasterVoteChecks(msgSender, proposalId, optionIndex, voteData) ==
    LET expectedRoot == RootAt(voteData.config.merkleRootIndex)
    IN  << Check(msgSender = PaymasterAddress, "UnauthorizedCaller"),
           Check(~hasVoted(voteData.proof.nullifier), "NullifierAlreadySpent"),
           Check(voteData.proof.scope = SCOPE, "InvalidSemaphoreProof"),
           Check(~(voteData.proof.merkleTreeRoot # expectedRoot \/ expectedRoot = 0),
                 "InvalidSemaphoreProof"),
           VerifierCheck(_validateProof(voteData.proof), "InvalidSemaphoreProof") >>

\* address(this).call(data): the paymaster dispatches data on its own
\* functions, with itself as the caller.  Empty data runs receive(), which
\* deposits the zero value sent along; the getter of the public variable
\* expectedSmartAccount returns; a function restricted to the owner reverts;
\* a selector the contract does not have reverts (there is no fallback).
selfCallChecks(data) ==
    IF data.selector = "vote"
    THEN paymasterVoteChecks(PaymasterAddress, data.proposalId, data.optionIndex, data.voteData)
    ELSE IF data.selector = "" THEN << >>
    ELSE IF data.selector = "expectedSmartAccount" THEN << >>
    ELSE IF data.selector = "setExpectedSmartAccount"
    THEN setExpectedSmartAccountChecks(PaymasterAddress, data.account)
    ELSE << Check(FALSE, "FunctionNotFound") >>

\* expectedSmartAccount after address(this).call(data); receive() with the
\* zero value and the view functions write nothing
selfCallPost(data) ==
    IF data.selector = "setExpectedSmartAccount"
    THEN setExpectedSmartAccountPost(PaymasterAddress, data.account)
    ELSE expectedSmartAccount

_validateVote(target, value, data) ==
    IF target # DAOAddress THEN FALSE
    ELSE IF value # 0 THEN FALSE
    ELSE RunChecks(selfCallChecks(data)).err = "ok"

\* how often _validateVote reaches MEMBERSHIP_VERIFIER.verifyProof
_validateVoteVerifierCalls(target, value, data) ==
    IF target # DAOAddress \/ value # 0 THEN 0
    ELSE RunChecks(selfCallChecks(data)).verifierCalls

_validateVotePost_CallsTarget(target, value, data) ==
    IF target = DAOAddress /\ value = 0 /\ data.selector = "vote"
    THEN votePost(data.proposalId, data.optionIndex, data.voteData)
    ELSE DAOStorage

\* the storage of the DAO after _validateVote: the call goes to the
\* paymaster itself and to view functions of the DAO, never to DAO.vote
_validateVotePost(target, value, data) == DAOStorage


_extractExecuteCallChecks(callData) ==
    << Check(callData.selector # "short", "InvalidCallData"),
       Check(callData.selector = "execute", "InvalidCallData") >>

\* the checks of _validatePaymasterUserOp that come before the call data is
\* looked at (the comments of the source number them 1, 2, 3 and 6)
accountConfigured == Check(expectedSmartAccount # ZeroAddress, "ExpectedSmartAccountNotSet")

senderExpected_Skipped(userOp) == Check(TRUE, "UnauthorizedSmartAccount")

senderExpected(userOp) ==
    Check(userOp.sender = expectedSmartAccount, "UnauthorizedSmartAccount")

accountDeployed_Skipped(userOp) == Check(TRUE, "SmartAccountNotDeployed")

accountDeployed(userOp) == Check(~(userOp.initCodeLength > 0), "SmartAccountNotDeployed")

depositCovers_Strict(maxCost) == Check(~(getDeposit <= maxCost), "_VALIDATION_FAILED")

depositCovers(maxCost) == Check(~(getDeposit < maxCost), "_VALIDATION_FAILED")

accountChecks(userOp, maxCost) ==
    << accountConfigured, senderExpected(userOp), accountDeployed(userOp),
       depositCovers(maxCost) >>

_validatePaymasterUserOpChecks(userOp, maxCost) ==
    accountChecks(userOp, maxCost)
    \o _extractExecuteCallChecks(userOp.callData)
    \o << Check(_validateVote(userOp.callData.target, userOp.callData.value,
                              userOp.callData.data), "VoteValidationFailed") >>

\* whether a validation gets as far as _extractExecuteCall, and how often it
\* reaches MEMBERSHIP_VERIFIER.verifyProof (only through _validateVote)
_extractExecuteCallReached(userOp, maxCost) ==
    RunChecks(accountChecks(userOp, maxCost)).err = "ok"

_validatePaymasterUserOpVerifierCalls(userOp, maxCost) ==
    IF RunChecks(accountChecks(userOp, maxCost)
                 \o _extractExecuteCallChecks(userOp.callData)).err = "ok"
    THEN _validateVoteVerifierCalls(userOp.callData.target, userOp.callData.value,
                                    userOp.callData.data)
    ELSE 0

\* validationData 0 approves the sponsorship; the deposit check returns
\* _VALIDATION_FAILED, every other failed check reverts
validationData(userOp, maxCost) ==
    LET err == RunChecks(_validatePaymasterUserOpChecks(userOp, maxCost)).err
    IN  IF err = "ok" THEN 0
        ELSE IF err = "_VALIDATION_FAILED" THEN _VALIDATION_FAILED
        ELSE -1

Approved(userOp, maxCost) == validationData(userOp, maxCost) = 0

_validatePaymasterUserOpPost(userOp, maxCost) ==
    LET run == RunChecks(_validatePaymasterUserOpChecks(userOp, maxCost))
    IN  IF run.err = "ok"
        THEN _validateVotePost(userOp.callData.target, userOp.callData.value,
                               userOp.callData.data)
        ELSE DAOStorage

\* expectedSmartAccount after the validation: the only call that can write
\* the paymaster's storage is the self-call of _validateVote, and a revert
\* undoes it
_validatePaymasterUserOpAccountPost(userOp, maxCost) ==
    IF RunChecks(_validatePaymasterUserOpChecks(userOp, maxCost)).err = "ok"
    THEN selfCallPost(userOp.callData.data)
    ELSE expectedSmartAccount

_validatePaymasterUserOp(userOp, maxCost) ==
    /\ Commit(_validatePaymasterUserOpPost(userOp, maxCost))
    /\ expectedSmartAccount' = _validatePaymasterUserOpAccountPost(userOp, maxCost)
    /\ UNCHANGED <<now, deposit, guardVars, indexerVars>>

(***************************************************************************)
(* The indexer (packages/indexer/src/dao.ts)                               *)
(***************************************************************************)
\* The store holds the entities by type and id.  Ids are strings, built as
\* the handlers build them.  Texts (title, description, option text) are not
\* part of the model's events, and the model has no block numbers; the
\* fields that copy them are left out.
EmptyStore ==
    [Proposal |-> <<>>, ProposalOption |-> <<>>, Vote |-> <<>>, Member |-> <<>>,
     DAOStats |-> <<>>, DailyMetric |-> <<>>, VotingActivity |-> <<>>]

toHex(address) == "0x" \o address

optionIdOf(proposalId, index) == ToString(proposalId) \o "-" \o ToString(index)

getOrCreateDAOStats(entities) ==
    IF "singleton" \in DOMAIN entities.DAOStats
    THEN entities.DAOStats["singleton"]
    ELSE [totalProposals |-> 0, totalVotes |-> 0, totalMembers |-> 0,
          activeProposals |-> 0, activeVoters |-> 0, lastUpdated |-> 0]

\* the id of a daily metric is the date of the day the timestamp falls in,
\* written here as the number of the day
dateOf(timestamp) == "day-" \o ToString(timestamp \div 86400)

getOrCreateDailyMetric(entities, timestamp) ==
    IF dateOf(timestamp) \in DOMAIN entities.DailyMetric
    THEN entities.DailyMetric[dateOf(timestamp)]
    ELSE [date |-> dateOf(timestamp), proposalsCreated |-> 0, dailyVotes |-> 0,
          membersJoined |-> 0, activeProposals |-> 0]

activityIdOf(timestamp, proposalId) == ToString(timestamp) \o "-" \o ToString(proposalId)

getOrCreateVotingActivity(entities, timestamp, proposalId) ==
    IF activityIdOf(timestamp, proposalId) \in DOMAIN entities.VotingActivity
    THEN entities.VotingActivity[activityIdOf(timestamp, proposalId)]
    ELSE [hour |-> (timestamp \div 3600) * 3600, votes |-> 0, uniqueProposals |-> 0,
          proposalId |-> proposalId, timestamp |-> timestamp]

\* event: <<"ProposalCreated", proposalId, options.length, startTime, endTime, proposer>>
handleProposalCreated(entities, event, timestamp) ==
    LET id == ToString(event[2])
        proposerId == toHex(event[6])
        proposer == IF proposerId \in DOMAIN entities.Member
                    THEN entities.Member[proposerId]
                    ELSE [address |-> event[6], identityCommitment |-> 0,
                          joinedAt |-> timestamp, votesCount |-> 0]
        proposal == [proposalId |-> event[2], startTime |-> event[4], endTime |-> event[5],
                     executed |-> FALSE, executedAt |-> 0, totalVotes |-> 0,
                     createdAt |-> timestamp, status |-> "ACTIVE", proposer |-> proposerId]
        options == [optionId \in {optionIdOf(event[2], i) : i \in 0..(event[3] - 1)} |->
                       [proposal |-> id, voteCount |-> 0,
                        index |-> CHOOSE i \in 0..(event[3] - 1) :
                                     optionId = optionIdOf(event[2], i)]]
        stats == getOrCreateDAOStats(entities)
        dailyMetric == getOrCreateDailyMetric(entities, timestamp)
    IN  [entities EXCEPT
            !.Member = Write(@, proposerId, proposer),
            !.Proposal = Write(@, id, proposal),
            !.ProposalOption = options @@ @,
            !.DAOStats = Write(@, "singleton",
                               [stats EXCEPT !.totalProposals = @ + 1,
                                             !.activeProposals = @ + 1,
                                             !.lastUpdated = timestamp]),
            !.DailyMetric = Write(@, dailyMetric.date,
                                  [dailyMetric EXCEPT !.proposalsCreated = @ + 1,
                                                      !.activeProposals = @ + 1])]

\* event: <<"VoteCast", proposalId, optionIndex, nullifierHash>>
handleVoteCast_KeyedByOption(entities, event, timestamp) ==
    [entities EXCEPT
        !.Vote = Write(@, optionIdOf(event[2], event[3]),
                       [proposal |-> ToString(event[2]), optionIndex |-> event[3],
                        nullifierHash |-> event[4], timestamp |-> timestamp]),
        !.Proposal = IF ToString(event[2]) \in DOMAIN @
                     THEN [@ EXCEPT ![ToString(event[2])].totalVotes = @ + 1]
                     ELSE @,
        !.ProposalOption = IF optionIdOf(event[2], event[3]) \in DOMAIN @
                           THEN [@ EXCEPT ![optionIdOf(event[2], event[3])].voteCount = @ + 1]
                           ELSE @]

handleVoteCast(entities, event, timestamp) ==
    LET id == ToString(event[2])
        voteEntity == [proposal |-> id, optionIndex |-> event[3],
                       nullifierHash |-> event[4], timestamp |-> timestamp]
        optionId == optionIdOf(event[2], event[3])
        stats == getOrCreateDAOStats(entities)
        dailyMetric == getOrCreateDailyMetric(entities, timestamp)
        votingActivity == getOrCreateVotingActivity(entities, timestamp, event[2])
    IN  [entities EXCEPT
            !.Vote = Write(@, ToString(event[4]), voteEntity),
            !.Proposal =
                IF id \in DOMAIN @
                THEN [@ EXCEPT ![id].totalVotes = @ + 1,
                               ![id].status = IF timestamp > entities.Proposal[id].endTime
                                              THEN "ENDED" ELSE @]
                ELSE @,
            !.ProposalOption =
                IF optionId \in DOMAIN @ THEN [@ EXCEPT ![optionId].voteCount = @ + 1] ELSE @,
            !.DAOStats = Write(@, "singleton",
                               [stats EXCEPT !.totalVotes = @ + 1, !.lastUpdated = timestamp]),
            !.DailyMetric = Write(@, dailyMetric.date,
                                  [dailyMetric EXCEPT !.dailyVotes = @ + 1]),
            !.VotingActivity = Write(@, activityIdOf(timestamp, event[2]),
                                     [votingActivity EXCEPT !.votes = @ + 1])]

\* event: <<"MemberAdded", member, identityCommitment>>
handleMemberAdded(entities, event, timestamp) ==
    LET memberId == toHex(event[2])
        member == IF memberId \in DOMAIN entities.Member
                  THEN entities.Member[memberId]
                  ELSE [address |-> event[2], identityCommitment |-> 0,
                        joinedAt |-> timestamp, votesCount |-> 0]
        stats == getOrCreateDAOStats(entities)
        dailyMetric == getOrCreateDailyMetric(entities, timestamp)
    IN  [entities EXCEPT
            !.Member = Write(@, memberId, [member EXCEPT !.identityCommitment = event[3]]),
            !.DAOStats = Write(@, "singleton",
                               [stats EXCEPT !.totalMembers = @ + 1,
                                             !.lastUpdated = timestamp]),
            !.DailyMetric = Write(@, dailyMetric.date,
                                  [dailyMetric EXCEPT !.membersJoined = @ + 1])]

\* event: <<"ProposalExecuted", proposalId>>
handleProposalExecuted(entities, event, timestamp) ==
    LET id == ToString(event[2])
        stats == getOrCreateDAOStats(entities)
        dailyMetric == getOrCreateDailyMetric(entities, timestamp)
    IN  [entities EXCEPT
            !.Proposal = IF id \in DOMAIN @
                         THEN [@ EXCEPT ![id].executed = TRUE, ![id].executedAt = timestamp,
                                        ![id].status = "EXECUTED"]
                         ELSE @,
            !.DAOStats = Write(@, "singleton",
                               [stats EXCEPT !.activeProposals = @ - 1,
                                             !.lastUpdated = timestamp]),
            !.DailyMetric = Write(@, dailyMetric.date,
                                  [dailyMetric EXCEPT !.activeProposals = @ - 1])]

\* The indexer is subscribed to the four events of IDAO.  The MemberAdded
\* event of DAOState (member index, commitment, root) has another signature
\* and no handler.
handleEvent(entities, event, timestamp) ==
    IF event[1] = "ProposalCreated" THEN handleProposalCreated(entities, event, timestamp)
    ELSE IF event[1] = "VoteCast" THEN handleVoteCast(entities, event, timestamp)
    ELSE IF event[1] = "MemberAdded" /\ Len(event) = 3
    THEN handleMemberAdded(entities, event, timestamp)
    ELSE IF event[1] = "ProposalExecuted" THEN handleProposalExecuted(entities, event, timestamp)
    ELSE entities

RECURSIVE handleEvents(_, _, _)
handleEvents(entities, newEvents, timestamp) ==
    IF newEvents = <<>> THEN entities
    ELSE handleEvents(handleEvent(entities, Head(newEvents), timestamp), Tail(newEvents),
                      timestamp)

\* A transaction of the DAO, and the indexer handling the events of its block
indexedTransaction(storage) ==
    /\ Commit(storage)
    /\ store' = handleEvents(store, SubSeq(storage.events, Len(events) + 1, Len(storage.events)),
                             now)
    /\ UNCHANGED <<now, paymasterVars, guardVars>>

(***************************************************************************)
(* Time                                                                    *)
(***************************************************************************)
Tick ==
    /\ \E t \in Timestamps : t > now /\ now' = t
    /\ UNCHANGED <<daoVars, paymasterVars, guardVars, indexerVars>>

(***************************************************************************)
(* Inputs                                                                  *)
(***************************************************************************)
\* Proofs: the well-formed proof for a nullifier (bound to the latest root at
\* its history index, the DAO scope, the minimal depth, accepted points) and
\* every proof that differs from it in the depth, in the scope, in the points
\* or in the root and history index.
ProofRoots == {0} \cup {RootAt(i) : i \in RootIndexes}

VoteDatas ==
    UNION { {VoteData(depth, RootAt(currentRootIndex), n, 0, SCOPE, AcceptedPoints,
                      currentRootIndex) : depth \in Depths}
            \cup {VoteData(MIN_TREE_DEPTH, RootAt(currentRootIndex), n, 0, scope,
                           AcceptedPoints, currentRootIndex) : scope \in Scopes}
            \cup {VoteData(MIN_TREE_DEPTH, RootAt(currentRootIndex), n, 0, SCOPE,
                           points, currentRootIndex) : points \in ProofPoints}
            \cup {VoteData(MIN_TREE_DEPTH, root, n, 0, SCOPE, AcceptedPoints, index) :
                    root \in ProofRoots, index \in RootIndexes}
          : n \in Nullifiers }

VoteCalls ==
    { VoteCallData(p, o, vd) : p \in ProposalIds, o \in OptionIndexes, vd \in VoteDatas }

\* User operations: every shape of the outer and inner call around one vote,
\* and every vote wrapped in a well-formed execute(DAO, 0, vote(...)).
InnerDatas ==
    { OtherCallData(s) : s \in {"", "expectedSmartAccount", "unknown"} }
    \cup { SetAccountCallData(account) : account \in Addresses }
    \cup { VoteCallData(0, 0, VoteData(MIN_TREE_DEPTH, RootAt(currentRootIndex), 1, 0, SCOPE,
                                       AcceptedPoints, currentRootIndex)) }

UserOperations ==
    { UserOperation(sender, initCodeLength, ExecuteCallData(selector, target, value, data)) :
        sender \in Addresses, initCodeLength \in {0, 1},
        selector \in {"execute"}, target \in {DAOAddress, PaymasterAddress},
        value \in Values, data \in InnerDatas }
    \cup { UserOperation(sender, 0, ExecuteCallData(selector, DAOAddress, 0, data)) :
        sender \in Addresses, selector \in {"short", "other"}, data \in InnerDatas }
    \cup { UserOperation(sender, 0, ExecuteCallData("execute", DAOAddress, 0, data)) :
        sender \in SmartAccounts, data \in VoteCalls }

(***************************************************************************)
(* Specification                                                           *)
(***************************************************************************)
Init ==
    /\ now = 0
    /\ members = <<>>
    /\ memberCommitments = <<>>
    /\ leaves = <<>>
    /\ membershipRoots = <<>>
    /\ currentRootIndex = 0
    /\ proposals = <<>>
    /\ proposalCount = 0
    /\ proposalVotes = <<>>
    /\ nullifierHashes = <<>>
    /\ events = <<>>
    /\ expectedSmartAccount = ZeroAddress
    /\ deposit = 0
    /\ _status = NOT_ENTERED
    /\ callStack = <<>>
    /\ store = EmptyStore

Next ==
    \/ \E sender \in Addresses, c \in Commitments : joinDAO(sender, c)
    \/ \E sender \in Addresses, tl \in StringLengths, dl \in StringLengths,
          ol \in OptionLengths, d \in Durations : createProposal(sender, tl, dl, ol, d)
    \/ \E p \in ProposalIds : executeProposal(p)
    \/ getActiveProposalsCall
    \/ \E sender \in VoteSenders, call \in VoteCalls :
          vote(sender, call.proposalId, call.optionIndex, call.voteData)
    \/ \E sender \in {PaymasterOwner} \cup Addresses, account \in {ZeroAddress} \cup SmartAccounts :
          setExpectedSmartAccount(sender, account)
    \/ \E value \in Values : receive(value)
    \/ \E userOp \in UserOperations, maxCost \in MaxCosts :
          _validatePaymasterUserOp(userOp, maxCost)
    \/ Tick

Spec == Init /\ [][Next]_vars

\* The DAO over a long run of joins, for the history of roots: the k-th
\* member joins with commitment k, and the joins that fail (a member joining
\* again, the zero commitment, a commitment already in the tree) are tried at
\* every point.  One proposal is created at some point of the run.
Joiner(k) == ToString(k)
HistoryJoiners == {Joiner(1), Joiner(Len(leaves) + 1)}
HistoryCommitments == {0, 1, Len(leaves) + 1}

PublishedRoots ==
    LET added == SelectSeq(events, LAMBDA e : e[1] = "MemberAdded" /\ Len(e) = 4)
    IN  [i \in 1..Len(added) |-> added[i][4]]

HistoryNext ==
    \/ \E sender \in HistoryJoiners, c \in HistoryCommitments :
          Len(leaves) < MaxJoins /\ joinDAO(sender, c)
    \/ \E sender \in {Joiner(1), Joiner(MaxJoins + 1)}, ol \in OptionLengths :
          proposalCount = 0 /\ createProposal(sender, 1, 1, ol, MIN_VOTING_DURATION)

HistorySpec == Init /\ [][HistoryNext]_vars

\* The DAO of a small group: up to ScenarioJoins joins, one proposal, and votes
\* bound to any published root at any of the first history indexes.
ScenarioVoteCalls ==
    LET roots == PublishedRoots
    IN  { VoteCallData(0, option, VoteData(MIN_TREE_DEPTH, root, n, 0, SCOPE, points, index)) :
            option \in OptionIndexes, root \in {0} \cup {roots[i] : i \in DOMAIN roots},
            n \in Nullifiers, points \in ProofPoints, index \in 0..ScenarioJoins }

ScenarioNext ==
    \/ \E sender \in HistoryJoiners, c \in HistoryCommitments :
          Len(leaves) < ScenarioJoins /\ joinDAO(sender, c)
    \/ \E sender \in {Joiner(1), Joiner(MaxJoins + 1)}, ol \in OptionLengths, d \in Durations :
          proposalCount = 0 /\ createProposal(sender, 1, 1, ol, d)
    \/ \E sender \in VoteSenders, call \in ScenarioVoteCalls :
          vote(sender, call.proposalId, call.optionIndex, call.voteData)

ScenarioSpec == Init /\ [][ScenarioNext]_vars

\* The DAO with vote() in two steps and a verifier that calls back into the
\* DAO.  A transaction is atomic: no other transaction starts while a vote is
\* suspended.
ReentrancyNext ==
    \/ \E sender \in Addresses, c \in Commitments :
          callStack = <<>> /\ joinDAO(sender, c)
    \/ \E sender \in Addresses, tl \in StringLengths, dl \in StringLengths,
          ol \in OptionLengths, d \in Durations :
          callStack = <<>> /\ createProposal(sender, tl, dl, ol, d)
    \/ callStack = <<>> /\ Tick
    \/ \E sender \in VoteSenders, call \in VoteCalls :
          voteEnter(sender, call.proposalId, call.optionIndex, call.voteData)
    \/ \E call \in VoteCalls :
          verifierCallsVote(call.proposalId, call.optionIndex, call.voteData)
    \/ voteReturn

ReentrancySpec == Init /\ [][ReentrancyNext]_vars

\* The DAO with the indexer following it: every transaction's events are
\* handled with the timestamp of its block.  Votes are bound to the latest
\* root and differ in proposal, option, nullifier and the verifier's answer.
IndexerVoteCalls ==
    { VoteCallData(p, o, VoteData(MIN_TREE_DEPTH, RootAt(currentRootIndex), n, 0, SCOPE,
                                  points, currentRootIndex)) :
        p \in ProposalIds, o \in OptionIndexes, n \in Nullifiers, points \in ProofPoints }

IndexerNext ==
    \/ \E sender \in Addresses, c \in Commitments :
          indexedTransaction(joinDAOPost(sender, c))
    \/ \E sender \in Addresses, ol \in OptionLengths, d \in Durations :
          /\ proposalCount < MaxProposals
          /\ indexedTransaction(createProposalPost(sender, 1, 1, ol, d))
    \/ \E sender \in VoteSenders, call \in IndexerVoteCalls :
          indexedTransaction(votePostFrom(sender, call.proposalId, call.optionIndex,
                                          call.voteData))
    \/ \E p \in ProposalIds : indexedTransaction(executeProposalPost(p))
    \/ Tick

IndexerSpec == Init /\ [][IndexerNext]_vars

(***************************************************************************)
(* Properties.  A property of a single call is stated over every call of   *)
(* the input domain, made in every reachable state: the outcome of the     *)
(* call is voteRun(...) and the storage it leaves is votePost(...), which  *)
(* is what the action vote commits.                                        *)
(***************************************************************************)
RunOf(call) == voteRun(call.proposalId, call.optionIndex, call.voteData)
PostOf(call) == votePost(call.proposalId, call.optionIndex, call.voteData)
NullifierOf(call) == call.voteData.proof.nullifier

\* a successful vote carrying the nullifier is on record
Cast(nullifier) ==
    \E i \in 1..Len(events) : events[i][1] = "VoteCast" /\ events[i][4] = nullifier

CastOn(nullifier, proposalId) ==
    \E i \in 1..Len(events) :
        events[i][1] = "VoteCast" /\ events[i][4] = nullifier /\ events[i][2] = proposalId

\* the tally of every proposal: the count of every option and the total
Tallies(storage) ==
    [votes |-> storage.proposalVotes,
     totals |-> [p \in DOMAIN storage.proposals |-> storage.proposals[p].totalVotes]]

\* the admission steps of vote(), as the specification lists them
ProposalExists(call) == call.proposalId < proposalCount
InWindow(call) ==
    /\ ProposalAt(call.proposalId).startTime <= now
    /\ now <= ProposalAt(call.proposalId).endTime
OptionValid(call) == call.optionIndex < ProposalAt(call.proposalId).optionCount
NullifierFresh(voteData) == ~hasVoted(voteData.proof.nullifier)
ScopeRight(voteData) == voteData.proof.scope = SCOPE
RootRetained(voteData) ==
    /\ RootAt(voteData.config.merkleRootIndex) # 0
    /\ voteData.proof.merkleTreeRoot = RootAt(voteData.config.merkleRootIndex)
DepthWithinBounds(voteData) ==
    voteData.proof.merkleTreeDepth \in MIN_TREE_DEPTH..MAX_TREE_DEPTH
VerifierAccepts(voteData) == voteData.proof.points = AcceptedPoints

Steps1And2(call) == ProposalExists(call) /\ InWindow(call) /\ OptionValid(call)
Steps3To5(voteData) ==
    NullifierFresh(voteData) /\ ScopeRight(voteData) /\ RootRetained(voteData)
Steps3To7(voteData) ==
    Steps3To5(voteData) /\ DepthWithinBounds(voteData) /\ VerifierAccepts(voteData)
Admissible(call) == Steps1And2(call) /\ Steps3To7(call.voteData)

\* C1 as stated: once a vote carrying nullifier n has succeeded, every later
\* vote carrying n fails with "DAO: Already voted" and changes no tally.
C1_EveryRepeatFailsWithAlreadyVoted ==
    \A call \in VoteCalls :
        Cast(NullifierOf(call)) =>
            /\ RunOf(call).err = "DAO: Already voted"
            /\ Tallies(PostOf(call)) = Tallies(DAOStorage)

\* C1 as amended: once a vote carrying nullifier n has succeeded, every later
\* vote carrying n fails and changes no tally; the error is "DAO: Already
\* voted" whenever the proposal exists, the time is within its window and the
\* option index is valid, and the error of that earlier check otherwise.
C1_RepeatFails ==
    \A call \in VoteCalls :
        Cast(NullifierOf(call)) =>
            /\ RunOf(call).err # "ok"
            /\ Steps1And2(call) => RunOf(call).err = "DAO: Already voted"
            /\ ~Steps1And2(call) =>
                  RunOf(call).err \in {"DAO: Invalid proposal", "DAO: Voting not started",
                                       "DAO: Voting ended", "DAO: Invalid option"}
            /\ Tallies(PostOf(call)) = Tallies(DAOStorage)

\* C1 witness: a nullifier was cast on one proposal, and a vote carrying it for
\* another, open proposal and another option fails with "DAO: Already voted".
C1_Witness ==
    \E call \in VoteCalls :
        /\ \E p \in ProposalIds : p # call.proposalId /\ CastOn(NullifierOf(call), p)
        /\ Steps1And2(call)
        /\ RunOf(call).err = "DAO: Already voted"

\* C2: a nullifier that is marked used stays marked used in every step,
\* whichever operation the step is.
C2_NullifierMonotone ==
    [][\A n \in Nullifiers :
          Read(nullifierHashes, n, FALSE) => Read(nullifierHashes', n, FALSE)]_vars

\* C2 witness: both nullifiers are used and a later operation of another kind,
\* the execution of a proposal, is the last one on record.
C2_Witness ==
    /\ \A n \in Nullifiers : hasVoted(n)
    /\ Len(events) > 0
    /\ events[Len(events)][1] = "ProposalExecuted"

\* C3: a vote that fails any admission check (proposal exists, time window,
\* option index, nullifier unused, scope, root at the history index, depth
\* bounds, proof verification) leaves the nullifiers, the tallies, the totals,
\* the root history and the event log as they were.
C3_FailedVoteChangesNothing ==
    \A call \in VoteCalls :
        ~Admissible(call) =>
            /\ RunOf(call).err # "ok"
            /\ PostOf(call).nullifierHashes = nullifierHashes
            /\ PostOf(call).proposalVotes = proposalVotes
            /\ PostOf(call).proposals = proposals
            /\ PostOf(call).membershipRoots = membershipRoots
            /\ PostOf(call).currentRootIndex = currentRootIndex
            /\ PostOf(call).events = events

\* C3 witness: votes have been counted, and a vote that passes every check
\* but the last one, the proof verification, is rejected.
C3_Witness ==
    /\ \E n \in Nullifiers : hasVoted(n)
    /\ \E call \in VoteCalls :
          /\ Steps1And2(call) /\ Steps3To5(call.voteData) /\ DepthWithinBounds(call.voteData)
          /\ RunOf(call).err = "ProofVerificationFailed"

\* C4: a successful vote marks its nullifier used, adds exactly 1 to the tally
\* cell of its proposal and option and to the total of its proposal, appends
\* exactly one VoteCast(proposalId, optionIndex, nullifier) record, and leaves
\* every other cell, proposal and nullifier, the members and the root history
\* unchanged.
C4_SuccessfulVoteEffect ==
    \A call \in VoteCalls :
        RunOf(call).err = "ok" =>
            LET post == PostOf(call)
                cell == <<call.proposalId, call.optionIndex>>
            IN  /\ Read(post.nullifierHashes, NullifierOf(call), FALSE)
                /\ \A n \in Nullifiers \ {NullifierOf(call)} :
                      Read(post.nullifierHashes, n, FALSE) = hasVoted(n)
                /\ \A c \in ProposalIds \X (0..MaxOptions) :
                      Read(post.proposalVotes, c, 0) =
                          VotesAt(c[1], c[2]) + (IF c = cell THEN 1 ELSE 0)
                /\ \A p \in ProposalIds :
                      Read(post.proposals, p, ZeroProposal) =
                          IF p = call.proposalId
                          THEN [ProposalAt(p) EXCEPT !.totalVotes = @ + 1]
                          ELSE ProposalAt(p)
                /\ post.proposalCount = proposalCount
                /\ post.events = Append(events, <<"VoteCast", call.proposalId,
                                                  call.optionIndex, NullifierOf(call)>>)
                /\ post.members = members
                /\ post.memberCommitments = memberCommitments
                /\ post.leaves = leaves
                /\ post.membershipRoots = membershipRoots
                /\ post.currentRootIndex = currentRootIndex

\* C4 witness: one vote has been counted on a proposal and a vote with the
\* other nullifier is about to succeed on another proposal.
C4_Witness ==
    \E call \in VoteCalls :
        /\ RunOf(call).err = "ok"
        /\ \E n \in Nullifiers, p \in ProposalIds :
              n # NullifierOf(call) /\ p # call.proposalId /\ CastOn(n, p)

\* C5: a vote on an existing proposal made before its startTime or after its
\* endTime fails and changes no tally, whatever the proof and the verifier's
\* answer; at startTime and at endTime the vote is inside the window.
C5_WindowEnforced ==
    \A call \in VoteCalls :
        LET proposal == ProposalAt(call.proposalId)
        IN  ProposalExists(call) =>
                /\ (now < proposal.startTime \/ now > proposal.endTime) =>
                      /\ RunOf(call).err \in {"DAO: Voting not started", "DAO: Voting ended"}
                      /\ Tallies(PostOf(call)) = Tallies(DAOStorage)
                /\ (now = proposal.startTime \/ now = proposal.endTime) =>
                      /\ RunOf(call).err \notin {"DAO: Voting not started", "DAO: Voting ended"}
                      /\ Admissible(call) => RunOf(call).err = "ok"

\* C5 witness: a proposal that received a vote is past its endTime, and a vote
\* that passes every other check, with a proof the verifier accepts, is
\* rejected.
C5_Witness ==
    \E call \in VoteCalls :
        /\ ProposalExists(call)
        /\ now > ProposalAt(call.proposalId).endTime
        /\ ProposalAt(call.proposalId).totalVotes > 0
        /\ OptionValid(call) /\ Steps3To7(call.voteData)
        /\ RunOf(call).err = "DAO: Voting ended"

\* the vote wrapped in a user operation, if the inner call is a vote
IsVoteOp(userOp) == userOp.callData.data.selector = "vote"

\* C6 as stated: every vote operation the paymaster approves succeeds when
\* DAO.vote() is called with the same arguments in the same state.
C6_ApprovedVoteSucceeds ==
    \A userOp \in UserOperations, maxCost \in MaxCosts :
        (Approved(userOp, maxCost) /\ IsVoteOp(userOp)) =>
            RunOf(userOp.callData.data).err = "ok"

\* C7 as stated: the paymaster approves only an inner call with target DAO,
\* value 0 and data that is a vote(...) invocation.
C7_OnlyVotesApproved ==
    \A userOp \in UserOperations, maxCost \in MaxCosts :
        Approved(userOp, maxCost) =>
            /\ userOp.callData.target = DAOAddress
            /\ userOp.callData.value = 0
            /\ IsVoteOp(userOp)

\* C8: no sponsorship validation, approved, declined or reverted, changes the
\* DAO's nullifiers, tallies, proposals, members, root history or root index.
C8_ValidationLeavesDAOUnchanged ==
    \A userOp \in UserOperations, maxCost \in MaxCosts :
        LET post == _validatePaymasterUserOpPost(userOp, maxCost)
        IN  /\ post.nullifierHashes = nullifierHashes
            /\ post.proposalVotes = proposalVotes
            /\ post.proposals = proposals
            /\ post.members = members
            /\ post.membershipRoots = membershipRoots
            /\ post.currentRootIndex = currentRootIndex

\* C8 witness: with a vote already counted, one vote operation is approved
\* while DAO.vote() would accept it, and another one makes the validation
\* revert.
C8_Witness ==
    /\ \E n \in Nullifiers : hasVoted(n)
    /\ \E userOp \in UserOperations, maxCost \in MaxCosts :
          /\ Approved(userOp, maxCost) /\ IsVoteOp(userOp)
          /\ RunOf(userOp.callData.data).err = "ok"
    /\ \E userOp \in UserOperations, maxCost \in MaxCosts :
          validationData(userOp, maxCost) = -1

\* C9 as stated: the paymaster declines every vote that fails one of the
\* admission steps 3 to 7 (nullifier unused, scope, root, depth bounds, proof
\* verification), also a vote of depth 0 or 33 that the verifier accepts.
C9_ValidatorDeclinesInadmissible ==
    \A userOp \in UserOperations, maxCost \in MaxCosts :
        (IsVoteOp(userOp) /\ ~Steps3To7(userOp.callData.data.voteData)) =>
            ~Approved(userOp, maxCost)

\* C10 as stated: a vote whose declared depth is below MIN_TREE_DEPTH or above
\* MAX_TREE_DEPTH is rejected with "DAO: Invalid tree depth" without a call
\* of the verifier.
C10_BadDepthGivesDepthError ==
    \A call \in VoteCalls :
        ~DepthWithinBounds(call.voteData) =>
            /\ RunOf(call).err = "DAO: Invalid tree depth"
            /\ RunOf(call).verifierCalls = 0

\* C10 as amended: a vote whose declared depth is below MIN_TREE_DEPTH or
\* above MAX_TREE_DEPTH is rejected without a call of the verifier; the error
\* is "DAO: Invalid tree depth" whenever the earlier checks (proposal, window,
\* option, nullifier, scope, root) pass, and the error of the first of them
\* that fails otherwise.
C10_BadDepthRejectedBeforeVerifier ==
    \A call \in VoteCalls :
        ~DepthWithinBounds(call.voteData) =>
            /\ RunOf(call).err \notin {"ok", "ProofVerificationFailed"}
            /\ RunOf(call).verifierCalls = 0
            /\ (Steps1And2(call) /\ Steps3To5(call.voteData)) <=>
                  RunOf(call).err = "DAO: Invalid tree depth"

\* C10 witness: a vote of depth 0 or 33 with a proof the verifier would accept
\* passes every earlier check and is rejected for its depth.
C10_Witness ==
    \A depth \in {MIN_TREE_DEPTH - 1, MAX_TREE_DEPTH + 1} :
        \E call \in VoteCalls :
            /\ call.voteData.proof.merkleTreeDepth = depth
            /\ VerifierAccepts(call.voteData)
            /\ RunOf(call).err = "DAO: Invalid tree depth"

\* the vote operations the paymaster approves in the current state
ApprovedVoteOps ==
    {userOp \in UserOperations :
        IsVoteOp(userOp) /\ \E maxCost \in MaxCosts : Approved(userOp, maxCost)}

\* the number of votes counted, over all proposals
CountedVotes(storage) ==
    Cardinality({i \in 1..Len(storage.events) : storage.events[i][1] = "VoteCast"})

\* C11 as stated: of two approved pending votes carrying the same nullifier,
\* the one the ledger executes first succeeds, the other one then fails with
\* "DAO: Already voted", and the tallies record exactly one vote.
C11_ExactlyOneOfTwoSucceeds ==
    [][\A first \in ApprovedVoteOps, second \in ApprovedVoteOps :
          (first # second /\ NullifierOf(first.callData.data) = NullifierOf(second.callData.data)) =>
              /\ RunOf(first.callData.data).err = "ok"
              /\ DAOStorage' = PostOf(first.callData.data) =>
                    /\ CountedVotes(DAOStorage') = CountedVotes(DAOStorage) + 1
                    /\ RunOf(second.callData.data)'.err = "DAO: Already voted"
                    /\ PostOf(second.callData.data)' = DAOStorage']_vars

\* the vote() call suspended at the verifier, if there is one
InFlight == callStack # <<>>

CastCount(nullifier) ==
    Cardinality({i \in 1..Len(events) :
                    events[i][1] = "VoteCast" /\ events[i][4] = nullifier})

\* C12: while a vote() is in flight at the external verifyProof call, the guard
\* is entered and the nullifier of the vote is not yet marked used; every
\* nested vote() is rejected (with the re-entrancy error whenever its proposal
\* exists) and writes nothing; no nullifier is ever counted twice.
C12_NoReentrantVote ==
    /\ InFlight =>
          /\ _status = ENTERED
          /\ ~hasVoted(NullifierOf(callStack[1]))
          /\ \A call \in VoteCalls :
                /\ RunOf(call).err # "ok"
                /\ ProposalExists(call) => RunOf(call).err = "ReentrancyGuardReentrantCall"
                /\ PostOf(call) = DAOStorage
    /\ ~InFlight => _status = NOT_ENTERED
    /\ \A n \in Nullifiers : CastCount(n) <= 1

\* C12 witness: a vote with a proof the verifier accepts is in flight, and a
\* nested vote with the same nullifier that passes every admission check of
\* the ledger is rejected by the guard.
C12_Witness ==
    /\ InFlight
    /\ VerifierAccepts(callStack[1].voteData)
    /\ \E call \in VoteCalls :
          /\ NullifierOf(call) = NullifierOf(callStack[1])
          /\ Admissible(call)
          /\ RunOf(call).err = "ReentrancyGuardReentrantCall"

\* the commitments inserted so far
InTree(commitment) == \E i \in 1..Len(leaves) : leaves[i] = commitment

RootsDistinct ==
    LET roots == PublishedRoots
    IN  \A i, j \in DOMAIN roots : roots[i] # 0 /\ (i # j => roots[i] # roots[j])

\* C14: after N successful joins from the empty group, N at most
\* ROOT_HISTORY_SIZE, _isKnownMembershipRoot is true for each of the N roots
\* published; from the 65th join on it is false for the roots that have
\* ROOT_HISTORY_SIZE or more newer roots after them, the first published root
\* first, and true for the ROOT_HISTORY_SIZE most recent ones.
C14_KnownRootsAreTheRecentOnes ==
    LET roots == PublishedRoots
        N == Len(roots)
    IN  /\ N = Len(leaves)
        /\ \A i \in 1..N :
              _isKnownMembershipRoot(roots[i]) <=> (i > N - ROOT_HISTORY_SIZE)

\* C14 witness: 65 joins have been made; the first published root is not
\* known any more, the second one and the latest one are.
C14_Witness ==
    LET roots == PublishedRoots
    IN  /\ Len(roots) = ROOT_HISTORY_SIZE + 1
        /\ ~_isKnownMembershipRoot(roots[1])
        /\ _isKnownMembershipRoot(roots[2])
        /\ _isKnownMembershipRoot(roots[ROOT_HISTORY_SIZE + 1])

\* the slots of the root history
HistorySlots == 0..(ROOT_HISTORY_SIZE - 1)

\* C15: in every state the non-zero entries of membershipRoots[0..63] are
\* exactly the most recent min(size, 64) roots that _insertMember produced,
\* and _isKnownMembershipRoot(0) is false, also while slots are still empty.
C15_HistoryHoldsRecentRoots ==
    LET roots == PublishedRoots
        N == Len(roots)
        recent == {roots[i] : i \in {k \in 1..N : k > N - ROOT_HISTORY_SIZE}}
        size == Len(leaves)
    IN  /\ {RootAt(slot) : slot \in HistorySlots} \ {0} = recent
        /\ Cardinality(recent) = (IF size < ROOT_HISTORY_SIZE THEN size ELSE ROOT_HISTORY_SIZE)
        /\ DOMAIN membershipRoots \subseteq HistorySlots
        /\ ~_isKnownMembershipRoot(0)

\* C15 witness: three roots have been published, the other slots of the
\* history are still zero, and the zero root is not known.
C15_Witness ==
    /\ Len(PublishedRoots) = 3
    /\ Cardinality({slot \in HistorySlots : RootAt(slot) = 0}) = ROOT_HISTORY_SIZE - 3
    /\ ~_isKnownMembershipRoot(0)

\* the published roots that have ROOT_HISTORY_SIZE or more newer roots after them
AgedRoots ==
    LET roots == PublishedRoots
    IN  {roots[i] : i \in {k \in 1..Len(roots) : k + ROOT_HISTORY_SIZE <= Len(roots)}}

\* the votes bound to a root: a proof the verifier accepts, every history
\* index from 0 to past the end of the history, an existing and a missing
\* proposal, a valid and an invalid option, the right and a wrong scope
VotesBoundTo(root) ==
    { VoteCallData(p, o, VoteData(MIN_TREE_DEPTH, root, n, 0, scope, AcceptedPoints, index)) :
        p \in ProposalIds, o \in {0, MaxOptions}, n \in Nullifiers, scope \in Scopes,
        index \in 0..(2 * ROOT_HISTORY_SIZE) }

\* C16 as stated: once ROOT_HISTORY_SIZE newer roots have been published after
\* root R, every vote whose proof declares R fails with "DAO: Unknown
\* membership root", for every history index.
C16_AgedRootGivesUnknownRoot ==
    \A root \in AgedRoots : \A call \in VotesBoundTo(root) :
        RunOf(call).err = "DAO: Unknown membership root"

\* C16 as amended: once ROOT_HISTORY_SIZE newer roots have been published after
\* root R, every vote whose proof declares R fails and writes nothing, for
\* every history index, also with a proof the verifier accepts; the error is
\* "DAO: Unknown membership root" whenever the earlier checks pass (proposal
\* exists, time within the window, option valid, nullifier unused, scope equal
\* to SCOPE), and the error of the first of them that fails otherwise.
C16_AgedRootRejected ==
    \A root \in AgedRoots : \A call \in VotesBoundTo(root) :
        /\ RunOf(call).err # "ok"
        /\ PostOf(call) = DAOStorage
        /\ RunOf(call).verifierCalls = 0
        /\ (Steps1And2(call) /\ NullifierFresh(call.voteData) /\ ScopeRight(call.voteData)) <=>
              RunOf(call).err = "DAO: Unknown membership root"

\* C16 witness: the first published root has aged out, a proposal is open, and
\* a vote bound to that root at the index where it was stored is rejected for
\* its root.
C16_Witness ==
    /\ Len(PublishedRoots) > ROOT_HISTORY_SIZE
    /\ \E call \in VotesBoundTo(PublishedRoots[1]) :
          /\ call.voteData.config.merkleRootIndex = 1
          /\ Steps1And2(call)
          /\ RunOf(call).err = "DAO: Unknown membership root"

\* the scenario: three joins have published R1, R2, R3 and proposal 0 has two
\* options and lasts one hour
ScenarioSetUp ==
    /\ Len(PublishedRoots) = 3
    /\ proposalCount = 1
    /\ ProposalAt(0).optionCount = 2
    /\ ProposalAt(0).endTime - ProposalAt(0).startTime = MIN_VOTING_DURATION

VotesCast == SelectSeq(events, LAMBDA e : e[1] = "VoteCast")

\* the vote of the scenario: option 0 of proposal 0, nullifier N1 (here 1), a
\* proof bound to R2 that the verifier accepts, at the given history index
ScenarioVote(index) ==
    VoteCallData(0, 0, VoteData(MIN_TREE_DEPTH, PublishedRoots[2], 1, 0, SCOPE,
                                AcceptedPoints, index))

TallyOf(storage, proposalId) ==
    <<Read(storage.proposalVotes, <<proposalId, 0>>, 0),
      Read(storage.proposalVotes, <<proposalId, 1>>, 0)>>

ScenarioHolds(index) ==
    ScenarioSetUp =>
        /\ VotesCast = <<>> =>
              /\ RunOf(ScenarioVote(index)).err = "ok"
              /\ TallyOf(PostOf(ScenarioVote(index)), 0) = <<1, 0>>
        /\ VotesCast = <<<<"VoteCast", 0, 0, 1>>>> =>
              /\ RunOf(ScenarioVote(index)).err = "DAO: Already voted"
              /\ TallyOf(DAOStorage, 0) = <<1, 0>>
              /\ getProposalVotes(0) = [i \in 0..1 |-> IF i = 0 THEN 1 ELSE 0]
              /\ TallyOf(PostOf(ScenarioVote(index)), 0) = <<1, 0>>

\* C17 as stated: after three joins publishing R1, R2, R3 and the creation of
\* a 2-option, 1-hour proposal, the vote for option 0 bound to R2 at history
\* index 1 with nullifier N1 succeeds and the tally becomes [1,0]; the same
\* call made again fails with "DAO: Already voted" and the tally stays [1,0].
C17_ScenarioAtIndexOne == ScenarioHolds(1)

\* C17 as amended: the same scenario with the vote submitted at history index
\* 2, the index at which R2 is stored (the first root is stored at index 1).
C17_ScenarioAtIndexTwo == ScenarioHolds(2)

\* C17 witness: the scenario has been played: the vote for option 0 with N1 is
\* the one vote cast, and the same call fails with "DAO: Already voted".
C17_Witness ==
    /\ ScenarioSetUp
    /\ VotesCast = <<<<"VoteCast", 0, 0, 1>>>>
    /\ RootAt(2) = PublishedRoots[2]
    /\ RunOf(ScenarioVote(2)).err = "DAO: Already voted"
    /\ TallyOf(DAOStorage, 0) = <<1, 0>>

\* how often executeProposal(proposalId) has succeeded
ExecutedCount(proposalId) ==
    Cardinality({i \in 1..Len(events) : events[i] = <<"ProposalExecuted", proposalId>>})

\* C18: for every proposal, executed is true exactly if executeProposal has
\* succeeded on it, which happens at most once and only at a time after
\* endTime; executeProposal at now <= endTime fails, executeProposal on an
\* executed proposal fails with "DAO: Already executed", both without a
\* change, and executeProposal after endTime on a proposal not yet executed
\* sets executed and nothing else of the proposal.
C18_ExecutedOnceAfterEnd ==
    \A p \in ProposalIds :
        LET proposal == ProposalAt(p)
            run == RunChecks(executeProposalChecks(p))
            post == executeProposalPost(p)
        IN  /\ ExecutedCount(p) <= 1
            /\ proposal.executed <=> ExecutedCount(p) = 1
            /\ proposal.executed => (p < proposalCount /\ now > proposal.endTime)
            /\ (p < proposalCount /\ now <= proposal.endTime) =>
                  (run.err = "DAO: Voting still active" /\ post = DAOStorage)
            /\ proposal.executed =>
                  (run.err = "DAO: Already executed" /\ post = DAOStorage)
            /\ (p < proposalCount /\ now > proposal.endTime /\ ~proposal.executed) =>
                  /\ run.err = "ok"
                  /\ post.proposals = [proposals EXCEPT ![p].executed = TRUE]
                  /\ post.events = Append(events, <<"ProposalExecuted", p>>)

\* C18 witness: a proposal has been executed after its endTime, another one is
\* still open for execution, and executing the first again fails.
C18_Witness ==
    \E p, q \in ProposalIds :
        /\ ProposalAt(p).executed
        /\ q < proposalCount /\ ~ProposalAt(q).executed
        /\ RunChecks(executeProposalChecks(p)).err = "DAO: Already executed"
        /\ RunChecks(executeProposalChecks(q)).err = "ok"

\* the createProposal calls looked at: every number of options from none to
\* one more than allowed, durations around the minimum
CreateCalls ==
    [sender : Addresses, titleLength : StringLengths, descriptionLength : StringLengths,
     optionsLength : 0..(MaxOptions + 1),
     duration : (MIN_VOTING_DURATION - 1)..(MIN_VOTING_DURATION + 1)]

CreateRun(c) ==
    RunChecks(createProposalChecks(c.sender, c.titleLength, c.descriptionLength,
                                   c.optionsLength, c.duration))
CreatePost(c) ==
    createProposalPost(c.sender, c.titleLength, c.descriptionLength, c.optionsLength, c.duration)

\* C19: createProposal succeeds exactly for a caller that is a member, with 2
\* to 10 options, a duration of at least MIN_VOTING_DURATION and a non-empty
\* title and description; on success the new proposal gets id = the previous
\* proposalCount, startTime = now and endTime = now + duration, proposalCount
\* grows by 1 and the stored proposals keep their ids 0, 1, 2, ...; on failure
\* proposalCount and the stored proposals are unchanged.
C19_CreateProposal ==
    /\ DOMAIN proposals = 0..(proposalCount - 1)
    /\ \A q \in DOMAIN proposals : proposals[q].id = q
    /\ \A c \in CreateCalls :
          LET post == CreatePost(c)
              allowed == /\ Read(members, c.sender, FALSE)
                         /\ c.optionsLength >= 2 /\ c.optionsLength <= 10
                         /\ c.duration >= MIN_VOTING_DURATION
                         /\ c.titleLength > 0 /\ c.descriptionLength > 0
          IN  /\ CreateRun(c).err = "ok" <=> allowed
              /\ allowed =>
                    /\ post.proposalCount = proposalCount + 1
                    /\ DOMAIN post.proposals = 0..proposalCount
                    /\ \A q \in DOMAIN proposals : post.proposals[q] = proposals[q]
                    /\ post.proposals[proposalCount].id = proposalCount
                    /\ post.proposals[proposalCount].startTime = now
                    /\ post.proposals[proposalCount].endTime = now + c.duration
                    /\ post.proposals[proposalCount].optionCount = c.optionsLength
                    /\ post.proposals[proposalCount].proposer = c.sender
              /\ ~allowed =>
                    /\ post.proposalCount = proposalCount
                    /\ post.proposals = proposals

\* C19 witness: one proposal is stored, at a later time a member creates the
\* next one with 10 options, and the same call by an address that is not a
\* member fails.
C19_Witness ==
    /\ proposalCount = 1
    /\ now > proposals[0].startTime
    /\ \E c \in CreateCalls, d \in CreateCalls :
          /\ c.optionsLength = MaxOptions
          /\ CreateRun(c).err = "ok"
          /\ CreatePost(c).proposals[1].id = 1
          /\ d = [c EXCEPT !.sender = d.sender]
          /\ CreateRun(d).err = "DAO: Not a member"

\* the fields of a proposal that are set at creation and not written again
CreationFields(proposal) ==
    <<proposal.id, proposal.titleLength, proposal.descriptionLength, proposal.startTime,
      proposal.endTime, proposal.optionCount, proposal.proposer>>

WellFormedProposal(proposal) ==
    /\ 2 <= proposal.optionCount /\ proposal.optionCount <= 10
    /\ proposal.endTime > proposal.startTime

\* C20: before and after every step, every stored proposal has between 2 and
\* 10 options and endTime > startTime, and no step changes the id, the title,
\* the description, startTime, endTime, optionCount or the proposer of a
\* stored proposal (executed and totalVotes are the fields that change).
C20_ProposalsWellFormedAndFixed ==
    [][/\ \A q \in 0..(proposalCount - 1) : WellFormedProposal(proposals[q])
       /\ \A q \in 0..(proposalCount' - 1) : WellFormedProposal(proposals'[q])
       /\ proposalCount' >= proposalCount
       /\ \A q \in 0..(proposalCount - 1) :
             CreationFields(proposals'[q]) = CreationFields(proposals[q])]_vars

\* C20 witness: a stored proposal has received a vote and has been executed,
\* and its other fields are those of its creation record.
C20_Witness ==
    \E q \in 0..(proposalCount - 1) :
        /\ proposals[q].executed
        /\ proposals[q].totalVotes > 0
        /\ \E i \in 1..Len(events) :
              events[i] = <<"ProposalCreated", q, proposals[q].optionCount,
                            proposals[q].startTime, proposals[q].endTime, proposals[q].proposer>>

\* C21: getActiveProposals returns, in ascending order and without
\* duplicates, exactly the ids below proposalCount whose proposal has
\* startTime <= now <= endTime and is not executed.
C21_ActiveProposals ==
    LET result == getActiveProposals
    IN  /\ \A i, j \in 1..Len(result) : i < j => result[i] < result[j]
        /\ {result[i] : i \in 1..Len(result)} =
              {p \in 0..(proposalCount - 1) :
                  /\ proposals[p].startTime <= now
                  /\ now <= proposals[p].endTime
                  /\ ~proposals[p].executed}

\* C21 witness: of two stored proposals the first one is past its endTime and
\* the second one is open; the result is the id of the second one.
C21_Witness ==
    /\ proposalCount = 2
    /\ now > proposals[0].endTime
    /\ getActiveProposals = <<1>>

\* the commitments of the joinDAO calls C22 speaks about: zero, the ones the
\* actions use and one no action uses
JoinCommitments == 0..(MaxCommitment + 1)

\* C22: memberCommitments[a] is written at most once.  An address that was
\* never a member has no commitment; the step that makes it a member stores a
\* non-zero commitment; from then on every joinDAO by it fails and changes
\* nothing, and no step changes its membership or its commitment.  joinDAO
\* with the commitment 0 fails for every address and changes nothing.
C22_Step ==
    \A a \in Addresses :
        /\ ~isMember(a) => Read(memberCommitments, a, 0) = 0
        /\ (~isMember(a) /\ isMember(a)') => Read(memberCommitments, a, 0)' # 0
        /\ isMember(a) =>
              /\ isMember(a)'
              /\ Read(memberCommitments, a, 0)' = Read(memberCommitments, a, 0)
              /\ Read(memberCommitments, a, 0) # 0
              /\ \A c \in JoinCommitments :
                    /\ RunChecks(joinDAOChecks(a, c)).err # "ok"
                    /\ joinDAOPost(a, c) = DAOStorage
        /\ RunChecks(joinDAOChecks(a, 0)).err # "ok"
        /\ joinDAOPost(a, 0) = DAOStorage

C22_CommitmentWrittenOnce == [][C22_Step]_vars

\* C22 witness: a member holds its commitment, the clock has moved since, and
\* a joinDAO by it with a commitment that is in no tree is refused.
C22_Witness ==
    /\ isMember("alice")
    /\ memberCommitments["alice"] = 1
    /\ now > 0
    /\ ~LeanIMTHas(MaxCommitment + 1)
    /\ RunChecks(joinDAOChecks("alice", MaxCommitment + 1)).err = "DAO: Already a member"

\* the maxCost values the claims about sponsorship speak about: below, at and
\* above every deposit
CostsAsked == 0..(MaxDeposit + 1)

\* the validation of the same call sent by the allow-listed account
FromExpected(userOp) == [userOp EXCEPT !.sender = expectedSmartAccount]

\* C23: a user operation whose sender is not expectedSmartAccount, and every
\* user operation while expectedSmartAccount is the zero address, is rejected
\* whatever the deposit, maxCost and inner call are, and the verifier is not
\* called.
C23_UnauthorizedSenderRejected ==
    \A userOp \in UserOperations, maxCost \in CostsAsked :
        (expectedSmartAccount = ZeroAddress \/ userOp.sender # expectedSmartAccount) =>
            /\ ~Approved(userOp, maxCost)
            /\ validationData(userOp, maxCost) = -1
            /\ _validatePaymasterUserOpVerifierCalls(userOp, maxCost) = 0
            /\ _validatePaymasterUserOpPost(userOp, maxCost) = DAOStorage

\* C23 witness: an account is configured, the deposit covers the cost, and an
\* operation that would be approved from that account comes from another one.
C23_Witness ==
    /\ expectedSmartAccount # ZeroAddress
    /\ \E userOp \in UserOperations :
          /\ userOp.sender # expectedSmartAccount
          /\ Approved(FromExpected(userOp), MaxDeposit)
          /\ _validatePaymasterUserOpVerifierCalls(FromExpected(userOp), MaxDeposit) > 0
          /\ ~Approved(userOp, MaxDeposit)

\* C24: a user operation with non-empty initCode is rejected, also when its
\* sender is the allow-listed account and the same operation without initCode
\* is approved.
C24_InitCodeRejected ==
    \A userOp \in UserOperations, maxCost \in CostsAsked :
        userOp.initCodeLength > 0 =>
            /\ ~Approved(userOp, maxCost)
            /\ validationData(userOp, maxCost) = -1
            /\ _validatePaymasterUserOpPost(userOp, maxCost) = DAOStorage

\* C24 witness: an operation of the allow-listed account carries initCode and
\* would be approved without it.
C24_Witness ==
    \E userOp \in UserOperations :
        /\ userOp.sender = expectedSmartAccount
        /\ userOp.initCodeLength > 0
        /\ Approved([userOp EXCEPT !.initCodeLength = 0], MaxDeposit)
        /\ RunChecks(_validatePaymasterUserOpChecks(userOp, MaxDeposit)).err
              = "SmartAccountNotDeployed"

\* C25: for an operation of the allow-listed account without initCode, a
\* deposit below maxCost gives validationData 1 (no revert) whatever the call
\* data is, well-formed or not, and without a call of the verifier; a deposit
\* of at least maxCost never gives validationData 1.
C25_DepositStep ==
    \A userOp \in UserOperations, maxCost \in CostsAsked :
        (/\ expectedSmartAccount # ZeroAddress
         /\ userOp.sender = expectedSmartAccount
         /\ userOp.initCodeLength = 0) =>
            /\ getDeposit < maxCost =>
                  /\ validationData(userOp, maxCost) = _VALIDATION_FAILED
                  /\ ~_extractExecuteCallReached(userOp, maxCost)
                  /\ _validatePaymasterUserOpVerifierCalls(userOp, maxCost) = 0
            /\ getDeposit >= maxCost =>
                  /\ validationData(userOp, maxCost) # _VALIDATION_FAILED
                  /\ _extractExecuteCallReached(userOp, maxCost)

\* C25 witness: with a deposit of MaxDeposit, an operation with malformed call
\* data and one that is approved at maxCost = MaxDeposit both get
\* validationData 1 at maxCost = MaxDeposit + 1.
C25_Witness ==
    /\ getDeposit = MaxDeposit
    /\ \E good \in UserOperations, bad \in UserOperations :
          /\ good.sender = expectedSmartAccount
          /\ bad.sender = expectedSmartAccount
          /\ Approved(good, MaxDeposit)
          /\ _validatePaymasterUserOpVerifierCalls(good, MaxDeposit) > 0
          /\ RunChecks(_validatePaymasterUserOpChecks(bad, MaxDeposit)).err = "InvalidCallData"
          /\ validationData(good, MaxDeposit + 1) = _VALIDATION_FAILED
          /\ validationData(bad, MaxDeposit + 1) = _VALIDATION_FAILED

\* the callers of setExpectedSmartAccount that are not the owner
NotOwners == Addresses \cup {PaymasterAddress, DAOAddress, ZeroAddress}

\* C26: expectedSmartAccount changes only in a step that is a call of
\* setExpectedSmartAccount by the owner; a call by any other address fails
\* and leaves it unchanged; no sponsorship validation changes it, whatever
\* the operation (a self-call of setExpectedSmartAccount included) and the
\* outcome are.
C26_OnlyOwnerSetsAccount ==
    /\ [](/\ \A sender \in NotOwners, account \in Addresses \cup {ZeroAddress} :
                /\ RunChecks(setExpectedSmartAccountChecks(sender, account)).err # "ok"
                /\ setExpectedSmartAccountPost(sender, account) = expectedSmartAccount
          /\ \A userOp \in UserOperations, maxCost \in CostsAsked :
                _validatePaymasterUserOpAccountPost(userOp, maxCost) = expectedSmartAccount)
    /\ [][expectedSmartAccount' # expectedSmartAccount =>
              \E account \in Addresses : /\ setExpectedSmartAccount(PaymasterOwner, account)
                                         /\ expectedSmartAccount' = account]_vars

\* C26 witness: the owner has configured the account, and an operation of
\* that account whose inner call is setExpectedSmartAccount(other account)
\* has passed every check before the inner validation.
C26_Witness ==
    /\ expectedSmartAccount # ZeroAddress
    /\ \E userOp \in UserOperations :
          /\ userOp.callData.data.selector = "setExpectedSmartAccount"
          /\ userOp.callData.data.account # expectedSmartAccount
          /\ RunChecks(_validatePaymasterUserOpChecks(userOp, MaxDeposit)).err
                = "VoteValidationFailed"

\* votes in which any number of preconditions fail together: every
\* combination of proposal, option, nullifier, scope, history index (the
\* latest root's or an empty slot's), depth and verifier answer
MixedVoteCalls ==
    { VoteCallData(p, o, VoteData(depth, RootAt(currentRootIndex), n, 0, scope, points, index)) :
        p \in ProposalIds, o \in OptionIndexes, depth \in {MIN_TREE_DEPTH, MAX_TREE_DEPTH + 1},
        n \in Nullifiers, scope \in Scopes, points \in ProofPoints,
        index \in {currentRootIndex, ROOT_HISTORY_SIZE} }

\* the preconditions of vote() in the order of the admission sequence (step 1
\* has three parts), each with the error that reports its failure
Preconditions(call) ==
    << [holds |-> ProposalExists(call), error |-> "DAO: Invalid proposal"],
       [holds |-> now >= ProposalAt(call.proposalId).startTime,
        error |-> "DAO: Voting not started"],
       [holds |-> now <= ProposalAt(call.proposalId).endTime, error |-> "DAO: Voting ended"],
       [holds |-> OptionValid(call), error |-> "DAO: Invalid option"],
       [holds |-> NullifierFresh(call.voteData), error |-> "DAO: Already voted"],
       [holds |-> ScopeRight(call.voteData), error |-> "DAO: Invalid DAO scope in proof"],
       [holds |-> RootRetained(call.voteData), error |-> "DAO: Unknown membership root"],
       [holds |-> DepthWithinBounds(call.voteData), error |-> "DAO: Invalid tree depth"],
       [holds |-> VerifierAccepts(call.voteData), error |-> "ProofVerificationFailed"] >>

FailedPreconditions(call) ==
    {i \in 1..Len(Preconditions(call)) : ~Preconditions(call)[i].holds}

\* C27: the nine preconditions of vote() are reported by nine different
\* errors, and a vote that fails one or several of them is rejected with the
\* error of the earliest one it fails; a vote that fails none succeeds.
C27_EarliestFailureReported ==
    \A call \in MixedVoteCalls :
        LET pre == Preconditions(call)
            failed == FailedPreconditions(call)
            checks == voteChecks(call.proposalId, call.optionIndex, call.voteData)
        IN  /\ Cardinality({checks[i].err : i \in 1..Len(checks)}) = Len(pre)
            /\ {checks[i].err : i \in 1..Len(checks)} = {pre[i].error : i \in 1..Len(pre)}
            /\ failed = {} => RunOf(call).err = "ok"
            /\ failed # {} =>
                  /\ RunOf(call).err = pre[Min(failed)].error
                  /\ PostOf(call) = DAOStorage

\* C27 witness: one vote fails the window, the nullifier, the scope, the
\* root, the depth and the verifier together, another one the scope, the
\* depth and the verifier.
C27_Witness ==
    /\ \E call \in MixedVoteCalls :
          /\ FailedPreconditions(call) = {3, 5, 6, 7, 8, 9}
          /\ RunOf(call).err = "DAO: Voting ended"
    /\ \E call \in MixedVoteCalls :
          /\ FailedPreconditions(call) = {6, 8, 9}
          /\ RunOf(call).err = "DAO: Invalid DAO scope in proof"

\* what the validator reports for an operation: "ok", or the error it ends
\* with (the deposit check's return value included)
Outcome(userOp, maxCost) == RunChecks(_validatePaymasterUserOpChecks(userOp, maxCost)).err

\* the first ground of the error model on which an operation is to be
\* declined; the inner validation has the two sub-grounds of a used nullifier
\* and of a bad proof
Ground(userOp, maxCost) ==
    IF expectedSmartAccount = ZeroAddress \/ userOp.sender # expectedSmartAccount
    THEN "unauthorized-account"
    ELSE IF userOp.initCodeLength > 0 THEN "account-not-deployed"
    ELSE IF getDeposit < maxCost THEN "insufficient-deposit"
    ELSE IF \/ userOp.callData.selector # "execute"
            \/ userOp.callData.target # DAOAddress
            \/ userOp.callData.value # 0
            \/ ~IsVoteOp(userOp)
    THEN "malformed-call"
    ELSE IF ~NullifierFresh(userOp.callData.data.voteData)
    THEN "inner-validation-failed: nullifier used"
    ELSE IF ~Steps3To7(userOp.callData.data.voteData)
    THEN "inner-validation-failed: bad proof"
    ELSE "none"

\* C28 as stated: operations declined on different grounds (unauthorized
\* account, account not deployed, insufficient deposit, malformed call, used
\* nullifier, bad proof) are reported with different outcomes.
C28_DeclineGroundsDistinct ==
    \A maxCost \in MaxCosts :
        LET declined == {userOp \in UserOperations : Outcome(userOp, maxCost) # "ok"}
        IN  \A first \in declined, second \in declined :
                Ground(first, maxCost) # Ground(second, maxCost) =>
                    Outcome(first, maxCost) # Outcome(second, maxCost)

\* the same vote with the scope of the DAO in its proof
WithScope(call, scope) == [call EXCEPT !.voteData.proof.scope = scope]

\* C29 as stated: every vote whose proof declares a scope different from SCOPE
\* fails with "DAO: Invalid DAO scope in proof" and changes no state, whatever
\* the verifier would answer.
C29_WrongScopeGivesScopeError ==
    \A call \in MixedVoteCalls :
        call.voteData.proof.scope # SCOPE =>
            /\ RunOf(call).err = "DAO: Invalid DAO scope in proof"
            /\ PostOf(call) = DAOStorage

\* C29: every vote whose proof declares a scope different from SCOPE fails
\* and changes no state, whatever the verifier would answer, and the verifier
\* is not called; the error is "DAO: Invalid DAO scope in proof" when the
\* proposal exists, the time is within its window, the option is valid and
\* the nullifier is unused, and otherwise the error of the first of these
\* checks that fails.
C29_WrongScopeRejected ==
    \A call \in MixedVoteCalls :
        call.voteData.proof.scope # SCOPE =>
            /\ RunOf(call).err # "ok"
            /\ PostOf(call) = DAOStorage
            /\ RunOf(call).verifierCalls = 0
            /\ RunOf(call).err =
                  IF Steps1And2(call) /\ NullifierFresh(call.voteData)
                  THEN "DAO: Invalid DAO scope in proof"
                  ELSE RunOf(WithScope(call, SCOPE)).err

\* C29 witness: a vote that succeeds with the scope of the DAO is rejected
\* with the scope error when its proof declares another scope.
C29_Witness ==
    \E call \in MixedVoteCalls :
        /\ call.voteData.proof.scope # SCOPE
        /\ RunOf(WithScope(call, SCOPE)).err = "ok"
        /\ VerifierAccepts(call.voteData)
        /\ RunOf(call).err = "DAO: Invalid DAO scope in proof"

\* C30: in every step, whatever the operation is (a vote that succeeds or
\* fails, executeProposal, a join, a new proposal, a sponsorship validation,
\* the clock), no tally cell proposalVotes[p][o] and no proposal's totalVotes
\* decreases, and a nullifier that was counted stays counted.
C30_CountsNeverDecrease ==
    [][/\ \A p \in ProposalIds, o \in OptionIndexes :
             VotesAt(p, o)' >= VotesAt(p, o)
       /\ \A p \in ProposalIds :
             ProposalAt(p)'.totalVotes >= ProposalAt(p).totalVotes
       /\ \A n \in Nullifiers : hasVoted(n) => hasVoted(n)']_vars

\* C30 witness: a proposal with a counted vote has been executed and still
\* shows the vote in its tally and in its total.
C30_Witness ==
    \E p \in ProposalIds, o \in OptionIndexes :
        /\ p < proposalCount
        /\ ProposalAt(p).executed
        /\ ProposalAt(p).totalVotes > 0
        /\ VotesAt(p, o) > 0

\* the votes C31 speaks about: any proposal, option and nullifier, a depth at
\* either bound, the scope of the DAO, a proof the verifier accepts, bound to
\* the root of the tree as it is now and submitted with currentRootIndex
CurrentRootVoteCalls ==
    { VoteCallData(p, o, VoteData(depth, LeanIMTRoot(leaves), n, 0, SCOPE, AcceptedPoints,
                                  currentRootIndex)) :
        p \in ProposalIds, o \in OptionIndexes, n \in Nullifiers,
        depth \in {MIN_TREE_DEPTH, MAX_TREE_DEPTH} }

\* what getProposalVotes returns when the storage is the given one
ProposalVotesIn(storage, proposalId) ==
    [i \in 0..(storage.proposals[proposalId].optionCount - 1) |->
        Read(storage.proposalVotes, <<proposalId, i>>, 0)]

\* C31: after at least one join, a vote on an open proposal with a valid
\* option, an unused nullifier, the scope of the DAO, a depth within bounds
\* and an accepted proof bound to the current root at currentRootIndex
\* succeeds, and getProposalVotes then shows the chosen option one higher and
\* the other options as before.  vote() takes no account of the caller.
C31_WellFormedVoteSucceeds ==
    \A call \in CurrentRootVoteCalls :
        (/\ Len(leaves) >= 1
         /\ ProposalExists(call) /\ InWindow(call) /\ OptionValid(call)
         /\ NullifierFresh(call.voteData)) =>
            LET before == getProposalVotes(call.proposalId)
                after == ProposalVotesIn(PostOf(call), call.proposalId)
            IN  /\ RunOf(call).err = "ok"
                /\ before = ProposalVotesIn(DAOStorage, call.proposalId)
                /\ DOMAIN after = DOMAIN before
                /\ \A i \in DOMAIN before :
                      after[i] = IF i = call.optionIndex THEN before[i] + 1 ELSE before[i]

\* C31 witness: the only address that submits votes is not a member, one of
\* its votes has been counted, and a further well-formed vote is possible.
C31_Witness ==
    /\ \A sender \in VoteSenders : ~isMember(sender)
    /\ \E p \in ProposalIds, o \in OptionIndexes : VotesAt(p, o) = 1
    /\ \E call \in CurrentRootVoteCalls :
          /\ Len(leaves) >= 1
          /\ ProposalExists(call) /\ InWindow(call) /\ OptionValid(call)
          /\ NullifierFresh(call.voteData)
          /\ RunOf(call).err = "ok"

\* the addresses a vote can come from: members, non-members, the paymaster
\* and its owner
Callers == Addresses \cup {PaymasterAddress, PaymasterOwner}

\* C32: two calls of vote() from the same state with the same proposalId,
\* optionIndex and voteData but different callers end with the same outcome
\* and the same storage and records; the record of a counted vote is
\* (proposalId, optionIndex, nullifier) and nothing else of the ledger but
\* the nullifier, the tally cell and totalVotes changes.
C32_CallerIndependent ==
    \A call \in MixedVoteCalls :
        LET p == call.proposalId
            o == call.optionIndex
            outcomes == {voteRunFrom(sender, p, o, call.voteData).err : sender \in Callers}
            posts == {votePostFrom(sender, p, o, call.voteData) : sender \in Callers}
        IN  /\ Cardinality(outcomes) = 1
            /\ Cardinality(posts) = 1
            /\ outcomes = {"ok"} =>
                  \A post \in posts :
                      /\ post.events = Append(events, <<"VoteCast", p, o, NullifierOf(call)>>)
                      /\ post.members = members
                      /\ post.memberCommitments = memberCommitments
                      /\ post.leaves = leaves
                      /\ post.membershipRoots = membershipRoots
                      /\ post.proposals = [proposals EXCEPT ![p].totalVotes = @ + 1]

\* C32 witness: a vote succeeds while there are a member and a non-member to
\* submit it.
C32_Witness ==
    /\ \E a \in Addresses : isMember(a)
    /\ \E a \in Addresses : ~isMember(a)
    /\ \E call \in MixedVoteCalls :
          /\ voteRunFrom("alice", call.proposalId, call.optionIndex, call.voteData).err = "ok"
          /\ votePostFrom("bob", call.proposalId, call.optionIndex, call.voteData) # DAOStorage

\* the VoteCast records of a proposal, and the sum of a proposal's indexed
\* option counts
VoteCastsOn(proposalId) ==
    {i \in 1..Len(events) : events[i][1] = "VoteCast" /\ events[i][2] = proposalId}

RECURSIVE OptionVoteCountSum(_, _)
OptionVoteCountSum(proposalId, optionCount) ==
    IF optionCount = 0 THEN 0
    ELSE store.ProposalOption[optionIdOf(proposalId, optionCount - 1)].voteCount
         + OptionVoteCountSum(proposalId, optionCount - 1)

\* C33: once the indexer has handled ProposalCreated for p and then the k
\* VoteCast events of p (their nullifiers are pairwise distinct), the indexed
\* proposal has totalVotes = k, there are k Vote entities of p, one per
\* nullifier, and the voteCount of p's options sum to k; the indexed total
\* and the indexed count of every option are the ledger's.
C33_IndexerMatchesLedger ==
    \A p \in 0..(proposalCount - 1) :
        LET id == ToString(p)
            casts == VoteCastsOn(p)
            k == Cardinality(casts)
            votes == {v \in DOMAIN store.Vote : store.Vote[v].proposal = id}
        IN  /\ id \in DOMAIN store.Proposal
            /\ Cardinality({events[i][4] : i \in casts}) = k
            /\ store.Proposal[id].totalVotes = k
            /\ votes = {ToString(events[i][4]) : i \in casts}
            /\ Cardinality(votes) = k
            /\ OptionVoteCountSum(p, ProposalAt(p).optionCount) = k
            /\ ProposalAt(p).totalVotes = k
            /\ \A o \in 0..(ProposalAt(p).optionCount - 1) :
                  store.ProposalOption[optionIdOf(p, o)].voteCount = VotesAt(p, o)

\* C33 witness: two proposals are indexed, the first with two votes for the
\* same option, the second with none.
C33_Witness ==
    /\ proposalCount = 2
    /\ Cardinality(VoteCastsOn(0)) = 2
    /\ VoteCastsOn(1) = {}
    /\ \E o \in OptionIndexes : VotesAt(0, o) = 2
    /\ store.Proposal["0"].totalVotes = 2

RECURSIVE TallySum(_, _)
TallySum(proposalId, optionCount) ==
    IF optionCount = 0 THEN 0
    ELSE VotesAt(proposalId, optionCount - 1) + TallySum(proposalId, optionCount - 1)

RECURSIVE SumOf(_, _)
SumOf(f, indexes) ==
    IF indexes = {} THEN 0
    ELSE LET i == CHOOSE j \in indexes : TRUE IN f[i] + SumOf(f, indexes \ {i})

\* C34: for every proposal, totalVotes is the sum of proposalVotes[p][o] over
\* its options, every cell of an option index at or above optionCount is 0
\* (also for ids that are not proposals), and the vector getProposalVotes
\* returns sums to totalVotes.
C34_TotalIsSumOfTallies ==
    \A p \in ProposalIds :
        /\ ProposalAt(p).totalVotes = TallySum(p, ProposalAt(p).optionCount)
        /\ \A key \in DOMAIN proposalVotes :
              key[1] = p => key[2] < ProposalAt(p).optionCount
        /\ \A o \in OptionIndexes :
              o >= ProposalAt(p).optionCount => VotesAt(p, o) = 0
        /\ SumOf(getProposalVotes(p), DOMAIN getProposalVotes(p)) = ProposalAt(p).totalVotes

\* C34 witness: a proposal has counted votes for two different options.
C34_Witness ==
    \E p \in ProposalIds :
        /\ VotesAt(p, 0) = 1
        /\ VotesAt(p, 1) = 1
        /\ ProposalAt(p).totalVotes = 2

\* the nullifiers marked used, and the votes counted over all proposals
UsedNullifiers == {n \in DOMAIN nullifierHashes : nullifierHashes[n]}

RECURSIVE TotalVotesBelow(_)
TotalVotesBelow(count) ==
    IF count = 0 THEN 0
    ELSE ProposalAt(count - 1).totalVotes + TotalVotesBelow(count - 1)

\* C35: the number of nullifiers marked used equals the sum of totalVotes
\* over all proposals and the number of VoteCast records; every used
\* nullifier is the nullifier of exactly one VoteCast record, and every
\* VoteCast record carries a used nullifier.
C35_NullifiersMatchVotes ==
    /\ Cardinality(UsedNullifiers) = TotalVotesBelow(proposalCount)
    /\ Cardinality(UsedNullifiers) = CountedVotes(DAOStorage)
    /\ \A n \in UsedNullifiers : CastCount(n) = 1
    /\ \A i \in 1..Len(events) : events[i][1] = "VoteCast" => events[i][4] \in UsedNullifiers

\* C35 witness: two nullifiers are used, one on each of two proposals.
C35_Witness ==
    /\ Cardinality(UsedNullifiers) = 2
    /\ proposalCount = 2
    /\ ProposalAt(0).totalVotes = 1
    /\ ProposalAt(1).totalVotes = 1

\* C36: in no state are a vote on p and executeProposal(p) both admissible;
\* every vote on an executed proposal fails; and no step changes the tally or
\* the totalVotes of a proposal that is executed, or takes the executed flag
\* back.
C36_ExecutedProposalIsClosed ==
    /\ [](\A call \in MixedVoteCalls :
              /\ ~(/\ RunOf(call).err = "ok"
                   /\ RunChecks(executeProposalChecks(call.proposalId)).err = "ok")
              /\ ProposalAt(call.proposalId).executed =>
                    /\ RunOf(call).err # "ok"
                    /\ PostOf(call) = DAOStorage)
    /\ [][\A p \in ProposalIds :
              ProposalAt(p).executed =>
                  /\ ProposalAt(p)'.executed
                  /\ ProposalAt(p)'.totalVotes = ProposalAt(p).totalVotes
                  /\ \A o \in OptionIndexes : VotesAt(p, o)' = VotesAt(p, o)]_vars

\* C36 witness: a proposal with a counted vote is executed, and a vote on it
\* that passes every check but the window is refused.
C36_Witness ==
    \E call \in MixedVoteCalls :
        /\ ProposalAt(call.proposalId).executed
        /\ ProposalAt(call.proposalId).totalVotes > 0
        /\ FailedPreconditions(call) = {3}
        /\ RunOf(call).err = "DAO: Voting ended"

\* votes that differ in the root and in the history index: every published
\* root and the zero root, every index up to the number of joins and two
\* indexes past the history, both scopes, both answers of the verifier
RootCheckVoteCalls ==
    LET roots == PublishedRoots
    IN  { VoteCallData(0, option, VoteData(MIN_TREE_DEPTH, root, n, 0, scope, points, index)) :
            option \in {0, MinOptions}, root \in {0} \cup {roots[i] : i \in DOMAIN roots},
            n \in Nullifiers, scope \in Scopes, points \in ProofPoints,
            index \in (0..ScenarioJoins) \cup {ROOT_HISTORY_SIZE, ROOT_HISTORY_SIZE + 1} }

\* the three cases of C37
IndexPastHistory(call) == call.voteData.config.merkleRootIndex >= ROOT_HISTORY_SIZE
SlotNeverWritten(call) == call.voteData.config.merkleRootIndex \notin DOMAIN membershipRoots
RetainedElsewhere(call) ==
    /\ call.voteData.proof.merkleTreeRoot # RootAt(call.voteData.config.merkleRootIndex)
    /\ \E j \in DOMAIN membershipRoots :
          membershipRoots[j] = call.voteData.proof.merkleTreeRoot
RootCheckFails(call) ==
    IndexPastHistory(call) \/ SlotNeverWritten(call) \/ RetainedElsewhere(call)

\* C37 as stated: a vote with merkleRootIndex >= ROOT_HISTORY_SIZE, with the
\* index of a slot never written, or with a root retained at another index
\* fails with "DAO: Unknown membership root" and changes no state.
C37_BadIndexGivesUnknownRoot ==
    \A call \in RootCheckVoteCalls :
        RootCheckFails(call) =>
            /\ RunOf(call).err = "DAO: Unknown membership root"
            /\ PostOf(call) = DAOStorage

\* C37: a vote passes only if its root equals the non-zero entry stored at
\* exactly the index it supplies; a vote with merkleRootIndex >=
\* ROOT_HISTORY_SIZE, with the index of a slot never written, or with a root
\* retained at another index fails and changes no state, without a call of
\* the verifier; the error is "DAO: Unknown membership root" when the
\* proposal exists, the time is within its window, the option is valid, the
\* nullifier is unused and the scope is SCOPE, and otherwise the error of the
\* first of these checks that fails.
C37_RootCheckedAtSuppliedIndex ==
    \A call \in RootCheckVoteCalls :
        /\ RunOf(call).err = "ok" =>
              /\ RootAt(call.voteData.config.merkleRootIndex) # 0
              /\ call.voteData.proof.merkleTreeRoot
                    = RootAt(call.voteData.config.merkleRootIndex)
        /\ RootCheckFails(call) =>
              /\ RunOf(call).err # "ok"
              /\ PostOf(call) = DAOStorage
              /\ RunOf(call).verifierCalls = 0
              /\ RunOf(call).err =
                    IF /\ Steps1And2(call) /\ NullifierFresh(call.voteData)
                       /\ ScopeRight(call.voteData)
                    THEN "DAO: Unknown membership root"
                    ELSE Preconditions(call)[Min(FailedPreconditions(call))].error

\* C37 witness: with two roots in the history, a vote bound to the older one
\* at the index of the newer one is refused with the unknown-root error, and
\* so are the same vote at an index past the history and at a slot never
\* written; at the older root's own index it passes.
C37_Witness ==
    /\ Len(leaves) >= 2
    /\ \E call \in RootCheckVoteCalls :
          LET at(index) == [call EXCEPT !.voteData.config.merkleRootIndex = index]
          IN  /\ RetainedElsewhere(call) /\ ~SlotNeverWritten(call)
              /\ RunOf(call).err = "DAO: Unknown membership root"
              /\ RunOf(at(ROOT_HISTORY_SIZE)).err = "DAO: Unknown membership root"
              /\ RunOf(at(0)).err = "DAO: Unknown membership root"
              /\ \E index \in 1..ScenarioJoins : RunOf(at(index)).err = "ok"

\* C38: in every state currentRootIndex < 64, currentRootIndex is the number
\* of successful joins mod 64, and after a join membershipRoots[currentRootIndex]
\* is the root of the tree; the first root is at index 1 while it is retained,
\* slot 0 is zero before the 64th join and holds the 64th root after it.  Every
\* successful insert writes the new root at (currentRootIndex + 1) mod 64,
\* moves currentRootIndex there and leaves the other slots alone.
C38_RingIndexFollowsJoins ==
    /\ [](LET roots == PublishedRoots
              joins == Len(roots)
          IN  /\ currentRootIndex < ROOT_HISTORY_SIZE
              /\ currentRootIndex = joins % ROOT_HISTORY_SIZE
              /\ joins >= 1 => /\ RootAt(currentRootIndex) = LeanIMTRoot(leaves)
                               /\ RootAt(currentRootIndex) = roots[joins]
              /\ joins \in 1..ROOT_HISTORY_SIZE => RootAt(1) = roots[1]
              /\ joins < ROOT_HISTORY_SIZE => RootAt(0) = 0
              /\ joins = ROOT_HISTORY_SIZE => RootAt(0) = roots[ROOT_HISTORY_SIZE] /\ RootAt(0) # 0)
    /\ [][Len(leaves') = Len(leaves) + 1 =>
             LET nextIndex == (currentRootIndex + 1) % ROOT_HISTORY_SIZE
             IN  /\ currentRootIndex' = nextIndex
                 /\ Read(membershipRoots', nextIndex, 0) = LeanIMTRoot(leaves')
                 /\ \A slot \in HistorySlots \ {nextIndex} :
                       Read(membershipRoots', slot, 0) = RootAt(slot)]_vars

\* C38 witness: 65 joins have been made; the index has wrapped to 1, slot 1
\* holds the 65th root in place of the first one, and slot 0 holds the 64th.
C38_Witness ==
    LET roots == PublishedRoots
    IN  /\ Len(roots) = ROOT_HISTORY_SIZE + 1
        /\ currentRootIndex = 1
        /\ RootAt(1) = LeanIMTRoot(leaves)
        /\ RootAt(1) # roots[1]
        /\ RootAt(0) = roots[ROOT_HISTORY_SIZE]

\* the addresses with members[a] = true
MemberAddresses == {a \in DOMAIN members : members[a]}

\* C39: in every state the size of the membership tree is the number of
\* addresses with members[a] = true and the number of roots published;
\* distinct members hold distinct commitments, and the stored commitment of
\* every member is a leaf of the tree.
C39_MembersMatchTree ==
    /\ Len(leaves) = Cardinality(MemberAddresses)
    /\ Len(leaves) = Len(PublishedRoots)
    /\ \A a \in MemberAddresses, b \in MemberAddresses :
          a # b => Read(memberCommitments, a, 0) # Read(memberCommitments, b, 0)
    /\ \A a \in MemberAddresses :
          /\ a \in DOMAIN memberCommitments
          /\ \E i \in 1..Len(leaves) : leaves[i] = memberCommitments[a]

\* C39 witness: three members have joined; a fourth address that joins with
\* the commitment of the first member is refused, and so is the first member
\* joining again with a new commitment.
C39_Witness ==
    /\ Len(leaves) = 3
    /\ Cardinality(MemberAddresses) = 3
    /\ RunChecks(joinDAOChecks(Joiner(4), memberCommitments[Joiner(1)])).err
          = "MemberAlreadyExists"
    /\ RunChecks(joinDAOChecks(Joiner(1), 4)).err = "DAO: Already a member"
    /\ joinDAOPost(Joiner(4), memberCommitments[Joiner(1)]) = DAOStorage

\* every caller of setExpectedSmartAccount
AccountSetters == NotOwners \cup {PaymasterOwner}

\* C40: setExpectedSmartAccount(0) fails for every caller and leaves
\* expectedSmartAccount unchanged; while expectedSmartAccount is the zero
\* address no sponsorship is approved; once expectedSmartAccount is not the
\* zero address it is not the zero address after any step.
C40_AccountStaysConfigured ==
    /\ [](/\ \A sender \in AccountSetters :
                /\ RunChecks(setExpectedSmartAccountChecks(sender, ZeroAddress)).err # "ok"
                /\ setExpectedSmartAccountPost(sender, ZeroAddress) = expectedSmartAccount
          /\ expectedSmartAccount = ZeroAddress =>
                \A userOp \in UserOperations, maxCost \in CostsAsked :
                    ~Approved(userOp, maxCost))
    /\ [][expectedSmartAccount # ZeroAddress => expectedSmartAccount' # ZeroAddress]_vars

\* C40 witness: the account is configured and an operation is approved; the
\* owner's setExpectedSmartAccount(0) is refused with UnauthorizedSmartAccount,
\* and the owner can still redirect sponsorship to another account.
C40_Witness ==
    /\ expectedSmartAccount # ZeroAddress
    /\ \E userOp \in UserOperations : Approved(userOp, MaxDeposit)
    /\ RunChecks(setExpectedSmartAccountChecks(PaymasterOwner, ZeroAddress)).err
          = "UnauthorizedSmartAccount"
    /\ \E account \in Addresses :
          /\ account # expectedSmartAccount
          /\ setExpectedSmartAccountPost(PaymasterOwner, account) = account

====
